---------------------------- MODULE Spec2Model ----------------------------
(***************************************************************************)
(* STAG v2: the session hub and its streaming clients                      *)
(* (internal/server/websocket, printed in src/cmd/stag/main.go from line   *)
(* 119 on) and the spatial repository                                      *)
(* (src/internal/spatial/repository.go).                                   *)
(*                                                                         *)
(* Spec      the hub, the readers and the writers of the live clients,     *)
(*           with the repository call every data update goes through.      *)
(* FairSpec  Spec with the hub goroutine scheduled fairly.                 *)
(* SpecRepo  the repository under sequentially executed HTTP ingests.      *)
(* SpecHTTP  the HTTP API (ingest, query, get anchor) over the repository. *)
(* SpecDelta the HTTP API with chains of delta meshes in the store.        *)
(* SpecBatch POST /api/v1/ingest with events of several anchors and meshes.*)
(* SpecRace  two request tasks in the mesh pipeline side by side.          *)
(* FairSpecTimed    the hub and its clients with the clock and the read    *)
(*           deadline, hub and expired reads scheduled fairly.             *)
(* FairSpecWriters  Spec with the writers scheduled fairly.                *)
(***************************************************************************)
EXTENDS Naturals, Integers, Sequences, FiniteSets, TLC

(***************************************************************************)
(* Bounds of the model.                                                    *)
(***************************************************************************)
\* connections opened during a run; clients are numbered in the order NewClient makes them
NumClients == 4
\* NewHub sets maxClientsPerSession to 10 (main.go:181); the hub is checked with
\* the cap scaled down so that NumClients connections fill one session
maxClientsPerSession == 3
\* NewClient makes the send channel with capacity 256 (main.go:308); scaled down
SendCap == 1
\* what the peers do during a run: connections opened, frames sent, and
\* connections dropped, all together
MaxEvents == 5
\* calls of the repository during a run of sequentially executed ingests
MaxCalls == 3

Sessions == {"s1", "s2"}
ClientIds == 1..NumClients
NoClient == 0

(***************************************************************************)
(* Data: byte sequences, meshes, anchors (pkg/api/types.go).               *)
(***************************************************************************)
Payloads == {<<>>, <<1>>}
MeshIds == {"m1", "m2"}
AnchorIds == {"a1"}

NoErr == ""
ValidationErr == "VALIDATION_ERROR"
DatabaseErr == "DATABASE_ERROR"

\* api.Mesh; compression_level plays no part in processing, and the
\* timestamp only in the resolution of a delta mesh: it is 1 unless MeshAt
\* sets it
Mesh(id, anchor, v, f, n, hash, delta, base, dd) ==
    [id |-> id, anchor_id |-> anchor, vertices |-> v, faces |-> f, normals |-> n,
     hash |-> hash, is_delta |-> delta, base_mesh_id |-> base, delta_data |-> dd,
     timestamp |-> 1]

MeshAt(mesh, ts) == [mesh EXCEPT !.timestamp = ts]

NilMesh == Mesh("", "", <<>>, <<>>, <<>>, <<>>, FALSE, "", <<>>)

\* api.Anchor; pose and metadata are carried along untouched
AnchorAt(id, session, ts) == [id |-> id, session_id |-> session, timestamp |-> ts]
Anchor(id, session) == AnchorAt(id, session, 1)

(***************************************************************************)
(* State.                                                                  *)
(***************************************************************************)
\* the read deadline ReadPump and its pong handler set: 60 s from now
pongWait == 60

\* the request tasks that run side by side, and a task that has not begun
Tasks == {1, 2}
IdleTask == [pc |-> "idle", in |-> NilMesh, mesh |-> NilMesh, err |-> NoErr]

VARIABLES
    clients,        \* Hub.clients: session id -> set of clients (entries made and deleted)
    hub,            \* position of Hub.Run: at its select, or inside broadcastMessage
    nconn,          \* number of clients made so far by HandleWebSocket
    sessionID,      \* Client.sessionID
    send,           \* Client.send: the buffered frames
    closes,         \* number of close(client.send) executed on the channel
    pc,             \* position of the handler/ReadPump goroutine of a client
    wr,             \* position of the WritePump goroutine of a client
    pend,           \* the BroadcastMessage a reader is blocked sending on hub.broadcast
    nframes,        \* inbound frames read so far
    WSConnectionsActive, \* metrics: the connections_active gauge, by session id
    written,        \* history: per client and sender, the last data update written to the socket
    now,            \* the clock, in seconds
    readDeadline,   \* the read deadline of a client's connection
    panicked,       \* a goroutine panicked: the process is gone
    meshHashCache,  \* Repository.meshHashCache: hash -> mesh id
    meshes,         \* the meshes collection: key -> row
    anchors,        \* the anchors collection: id -> row
    seen,           \* history: geometry -> id carried by the last mesh processed with it
    ncalls,         \* history: calls of the repository made so far
    last,           \* history: the last repository call and what it returned
    resp,           \* history: the last HTTP request and the response written to it
    tasks           \* the request tasks that run the mesh pipeline side by side

hubVars == <<clients, hub, nconn, sessionID, send, closes, pc, wr, pend, nframes, panicked,
             WSConnectionsActive, written, now, readDeadline>>
repoVars == <<meshHashCache, meshes, anchors, seen, ncalls, last, resp, tasks>>
vars == <<hubVars, repoVars>>


(***************************************************************************)
(* Maps with a changing domain (Go maps, document collections).            *)
(***************************************************************************)
Put(f, k, v) == [x \in DOMAIN f \cup {k} |-> IF x = k THEN v ELSE f[x]]
Del(f, k) == [x \in DOMAIN f \ {k} |-> f[x]]
EmptyMap == [x \in {} |-> x]

(***************************************************************************)
(* The spatial repository (src/internal/spatial/repository.go).            *)
(***************************************************************************)
\* computeMeshHash with the id of the mesh hashed in front of its content
computeMeshHashWithId(mesh) ==
    (IF mesh.id = "m1" THEN <<1>> ELSE <<2>>) \o mesh.vertices \o mesh.faces \o
        (IF Len(mesh.normals) > 0 THEN mesh.normals ELSE <<>>)

\* computeMeshHash: SHA-256 over vertices, faces and (when not empty) normals
\* written one after the other into the same hasher.  SHA-256 and the hex
\* encoding are taken as injective: the hash is the byte string hashed.
computeMeshHash(mesh) ==
    mesh.vertices \o mesh.faces \o
        (IF Len(mesh.normals) > 0 THEN mesh.normals ELSE <<>>)

\* processMeshForStorage without the rewrite of the id on a cache hit
processMeshNoRewrite(cache, mesh) ==
    IF mesh.is_delta
    THEN IF mesh.base_mesh_id = ""
         THEN [mesh |-> NilMesh, saved |-> 0, err |-> ValidationErr, cache |-> cache]
         ELSE [mesh |-> IF Len(mesh.delta_data) > 0
                        THEN [mesh EXCEPT !.vertices = mesh.delta_data,
                                          !.faces = <<>>, !.normals = <<>>]
                        ELSE mesh,
               saved |-> 0, err |-> NoErr, cache |-> cache]
    ELSE LET hash == computeMeshHash(mesh)
             hashed == [mesh EXCEPT !.hash = hash]
         IN  IF hash \in DOMAIN cache
             THEN [mesh |-> hashed, saved |-> 0, err |-> NoErr, cache |-> cache]
             ELSE [mesh |-> hashed, saved |-> 0, err |-> NoErr,
                   cache |-> Put(cache, hash, mesh.id)]

\* processMeshForStorage accepting a delta mesh that names no base
processMeshNoBaseCheck(cache, mesh) ==
    IF mesh.is_delta
    THEN [mesh |-> IF Len(mesh.delta_data) > 0
                   THEN [mesh EXCEPT !.vertices = mesh.delta_data,
                                     !.faces = <<>>, !.normals = <<>>]
                   ELSE mesh,
          saved |-> 0, err |-> NoErr, cache |-> cache]
    ELSE LET hash == computeMeshHash(mesh)
             hashed == [mesh EXCEPT !.hash = hash]
         IN  IF hash \in DOMAIN cache
             THEN [mesh |-> [hashed EXCEPT !.id = cache[hash]],
                   saved |-> Len(mesh.vertices) + Len(mesh.faces) + Len(mesh.normals),
                   err |-> NoErr, cache |-> cache]
             ELSE [mesh |-> hashed, saved |-> 0, err |-> NoErr,
                   cache |-> Put(cache, hash, mesh.id)]

\* processMeshForStorage(mesh) with r.meshHashCache = cache: the mesh to store,
\* the bytes saved, the error, and the cache afterwards
processMeshForStorage(cache, mesh) ==
    IF mesh.is_delta
    THEN IF mesh.base_mesh_id = ""
         THEN [mesh |-> NilMesh, saved |-> 0, err |-> ValidationErr, cache |-> cache]
         ELSE [mesh |-> IF Len(mesh.delta_data) > 0
                        THEN [mesh EXCEPT !.vertices = mesh.delta_data,
                                          !.faces = <<>>, !.normals = <<>>]
                        ELSE mesh,
               saved |-> 0, err |-> NoErr, cache |-> cache]
    ELSE LET hash == computeMeshHash(mesh)
             hashed == [mesh EXCEPT !.hash = hash]
         IN  IF hash \in DOMAIN cache
             THEN [mesh |-> [hashed EXCEPT !.id = cache[hash]],
                   saved |-> Len(mesh.vertices) + Len(mesh.faces) + Len(mesh.normals),
                   err |-> NoErr, cache |-> cache]
             ELSE [mesh |-> hashed, saved |-> 0, err |-> NoErr,
                   cache |-> Put(cache, hash, mesh.id)]

\* The document store behind col.ReadDocument / col.CreateDocument: a
\* collection keyed by the primary key, which is the mesh id.
StoreHas(col, key) == key \in DOMAIN col
StoreCreate(col, key, doc) == Put(col, key, doc)

\* ingestMesh writing the mesh without the pre-read of its id
ingestMeshOverwrite(col, mesh, db) ==
    IF db = "down" THEN [err |-> DatabaseErr, col |-> col]
    ELSE [err |-> NoErr, col |-> StoreCreate(col, mesh.id, mesh)]

\* ingestMesh(mesh) on the meshes collection col; db is what the store does
\* with the call ("ok", or "down": the call fails before anything is written)
ingestMesh(col, mesh, db) ==
    IF db = "down" THEN [err |-> DatabaseErr, col |-> col]
    ELSE IF StoreHas(col, mesh.id) THEN [err |-> NoErr, col |-> col]
    ELSE [err |-> NoErr, col |-> StoreCreate(col, mesh.id, mesh)]

\* ingestAnchor inserting the anchor only when its id is not stored yet
ingestAnchorInsertOnly(col, anchor, db) ==
    IF db = "down" THEN [err |-> DatabaseErr, col |-> col]
    ELSE IF anchor.id \in DOMAIN col THEN [err |-> NoErr, col |-> col]
    ELSE [err |-> NoErr, col |-> Put(col, anchor.id, anchor)]

\* ingestAnchor(anchor): UPSERT by id, the last write wins
ingestAnchor(col, anchor, db) ==
    IF db = "down" THEN [err |-> DatabaseErr, col |-> col]
    ELSE [err |-> NoErr, col |-> Put(col, anchor.id, anchor)]


\* geometry of a mesh: what deduplication compares
Geometry(mesh) == <<mesh.vertices, mesh.faces, mesh.normals>>

\* The mesh pipeline of Ingest and of processMeshUpdate: processMeshForStorage
\* and, when it accepts, ingestMesh.  The cache write of processMeshForStorage
\* stays when ingestMesh fails.
\* stage tells where the pipeline ended: "process" when processMeshForStorage
\* returned the error, "store" when ingestMesh was called.
MeshPipeline(mesh, db) ==
    LET p == processMeshForStorage(meshHashCache, mesh)
        w == ingestMesh(meshes, p.mesh, db)
    IN  IF p.err # NoErr
        THEN [err |-> p.err, stage |-> "process", out |-> p.mesh, saved |-> 0,
              db |-> db, cache |-> p.cache, meshes |-> meshes]
        ELSE [err |-> w.err, stage |-> "store", out |-> p.mesh, saved |-> p.saved,
              db |-> db, cache |-> p.cache, meshes |-> w.col]

\* the history kept of one run of the mesh pipeline: the n-th call of the
\* repository, the mesh handed in, the processed mesh, the bytes saved, the
\* error returned and what the store did
MeshRecord(mesh, r) ==
    [op |-> "mesh", n |-> ncalls + 1, in |-> mesh, out |-> r.out, saved |-> r.saved,
     err |-> r.err, stage |-> r.stage, db |-> r.db]

NoRecord ==
    [op |-> "none", n |-> 0, in |-> NilMesh, out |-> NilMesh, saved |-> 0,
     err |-> NoErr, stage |-> "", db |-> "ok"]

SeenAfter(mesh, r) ==
    IF ~mesh.is_delta /\ r.stage = "store" THEN Put(seen, Geometry(mesh), r.out.id)
    ELSE seen

\* state change of one run of the mesh pipeline
RunMeshPipeline(mesh, r) ==
    /\ ncalls' = ncalls + 1
    /\ meshHashCache' = r.cache
    /\ meshes' = r.meshes
    /\ seen' = SeenAfter(mesh, r)
    /\ last' = MeshRecord(mesh, r)
    /\ UNCHANGED <<resp, tasks>>

(***************************************************************************)
(* WebSocket envelopes (pkg/api/types.go) and the repository's handling    *)
(* of them.                                                                *)
(***************************************************************************)
\* a base64 string: DecodeString gives its bytes or fails
B64(bytes) == [valid |-> TRUE, bytes |-> bytes]
BadB64 == [valid |-> FALSE, bytes |-> <<>>]

\* the data of an envelope: json says whether it unmarshals into the update type
WSData(json, id, anchor, v, f, n, delta, base) ==
    [json |-> json, id |-> id, anchor_id |-> anchor, vertices |-> v, faces |-> f,
     normals |-> n, is_delta |-> delta, base_mesh_id |-> base]

NoData == WSData("ok", "", "", B64(<<>>), B64(<<>>), B64(<<>>), FALSE, "")
BadData == WSData("bad", "", "", B64(<<>>), B64(<<>>), B64(<<>>), FALSE, "")

WSMessage(type, session, data) == [type |-> type, session_id |-> session, data |-> data]

\* the mesh processMeshUpdate builds from a decoded MeshUpdate
MeshOfUpdate(u) ==
    Mesh(u.id, u.anchor_id, u.vertices.bytes, u.faces.bytes, u.normals.bytes, <<>>,
         u.is_delta, u.base_mesh_id, IF u.is_delta THEN u.vertices.bytes ELSE <<>>)

\* processMeshUpdate: the error its decoding ends with, NoErr when it goes on
\* to the mesh pipeline
MeshUpdateDecodeErr(u) ==
    IF u.json = "bad" \/ ~u.vertices.valid \/ ~u.faces.valid \/ ~u.normals.valid
    THEN ValidationErr ELSE NoErr

\* processAnchorUpdate: the anchor is stored under the envelope's session_id
AnchorOfUpdate(msg) == Anchor(msg.data.id, msg.session_id)

(***************************************************************************)
(* The session hub (Hub, main.go:135-300).                                 *)
(***************************************************************************)
\* frames on a send channel: who caused the frame and the envelope it carries.
\* n tells the data updates of one sender apart: it is the number of the
\* repository call that processed the update, 0 for a pong or an error frame
Frame(type, from, session) ==
    [type |-> type, from |-> from, session_id |-> session, n |-> 0]
DataFrame(type, from, session, n) == [Frame(type, from, session) EXCEPT !.n = n]
NoFrame == Frame("", NoClient, "")

\* BroadcastMessage
BroadcastMessage(session, message, exclude) ==
    [SessionID |-> session, Message |-> message, Exclude |-> exclude]
NoBroadcast == BroadcastMessage("", NoFrame, NoClient)

\* Hub.Run at its select
AtSelect == [pc |-> "select", msg |-> NoBroadcast, todo |-> {}, client |-> NoClient]

closed(c) == closes[c] > 0

\* close(client.send); closing a closed channel panics
CloseSend(c) ==
    /\ closes' = [closes EXCEPT ![c] = @ + 1]
    /\ panicked' = closed(c)

\* registerClient admitting a client whatever the size of the session
registerClientNoCap(c) ==
    LET s == sessionID[c]
        made == IF s \in DOMAIN clients THEN clients ELSE Put(clients, s, {})
    IN  /\ clients' = [made EXCEPT ![s] = @ \cup {c}]
        /\ WSConnectionsActive' = [WSConnectionsActive EXCEPT ![s] = @ + 1]
        /\ UNCHANGED <<closes, panicked>>

\* registerClient turning a client away without closing its send channel
registerClientNoClose(c) ==
    LET s == sessionID[c]
        made == IF s \in DOMAIN clients THEN clients ELSE Put(clients, s, {})
    IN  IF Cardinality(made[s]) >= maxClientsPerSession
        THEN /\ clients' = made
             /\ UNCHANGED <<closes, panicked, WSConnectionsActive>>
        ELSE /\ clients' = [made EXCEPT ![s] = @ \cup {c}]
             /\ WSConnectionsActive' = [WSConnectionsActive EXCEPT ![s] = @ + 1]
             /\ UNCHANGED <<closes, panicked>>

\* registerClient (main.go:202-224)
registerClient(c) ==
    LET s == sessionID[c]
        made == IF s \in DOMAIN clients THEN clients ELSE Put(clients, s, {})
    IN  IF Cardinality(made[s]) >= maxClientsPerSession
        THEN /\ clients' = made
             /\ CloseSend(c)
             /\ UNCHANGED WSConnectionsActive
        ELSE /\ clients' = [made EXCEPT ![s] = @ \cup {c}]
             /\ WSConnectionsActive' = [WSConnectionsActive EXCEPT ![s] = @ + 1]
             /\ UNCHANGED <<closes, panicked>>

\* unregisterClient closing the channel without looking the client up
unregisterClientNoLookup(c) ==
    LET s == sessionID[c]
    IN  /\ CloseSend(c)
        /\ clients' = IF s \in DOMAIN clients
                      THEN IF clients[s] \ {c} = {} THEN Del(clients, s)
                           ELSE [clients EXCEPT ![s] = @ \ {c}]
                      ELSE clients
        /\ WSConnectionsActive' =
              IF s \in DOMAIN clients /\ c \in clients[s]
              THEN [WSConnectionsActive EXCEPT ![s] = @ - 1]
              ELSE WSConnectionsActive

\* unregisterClient decrementing the gauge whether or not it finds the client
unregisterClientAlwaysDec(c) ==
    LET s == sessionID[c]
    IN  /\ WSConnectionsActive' = [WSConnectionsActive EXCEPT ![s] = @ - 1]
        /\ IF s \in DOMAIN clients /\ c \in clients[s]
           THEN /\ CloseSend(c)
                /\ clients' = IF clients[s] \ {c} = {} THEN Del(clients, s)
                              ELSE [clients EXCEPT ![s] = @ \ {c}]
           ELSE UNCHANGED <<clients, closes, panicked>>

\* unregisterClient (main.go:227-246)
unregisterClient(c) ==
    LET s == sessionID[c]
    IN  IF s \in DOMAIN clients /\ c \in clients[s]
        THEN /\ CloseSend(c)
             /\ clients' = IF clients[s] \ {c} = {} THEN Del(clients, s)
                           ELSE [clients EXCEPT ![s] = @ \ {c}]
             /\ WSConnectionsActive' = [WSConnectionsActive EXCEPT ![s] = @ - 1]
        ELSE UNCHANGED <<clients, closes, panicked, WSConnectionsActive>>

\* the clients broadcastMessage sends to, every client of the session
RecipientsAll(msg) ==
    IF msg.SessionID \in DOMAIN clients THEN clients[msg.SessionID] ELSE {}

\* the clients broadcastMessage sends to: the session's set as read under the
\* lock, less the excluded client (main.go:250-262)
Recipients(msg) ==
    IF msg.SessionID \in DOMAIN clients
    THEN clients[msg.SessionID] \ {msg.Exclude} ELSE {}

\* Hub.Run takes a client from h.register (sent by HandleWebSocket through
\* Hub.Register), runs registerClient; the handler goes on to start the pumps,
\* and ReadPump begins by setting the read deadline (main.go:320)
HubRegister(c) ==
    /\ ~panicked
    /\ hub.pc = "select"
    /\ pc[c] = "register"
    /\ registerClient(c)
    /\ pc' = [pc EXCEPT ![c] = "read"]
    /\ wr' = [wr EXCEPT ![c] = "run"]
    /\ readDeadline' = [readDeadline EXCEPT ![c] = now + pongWait]
    /\ UNCHANGED <<hub, nconn, sessionID, send, pend, nframes, written, now, repoVars>>

\* Hub.Run takes a client from h.unregister (sent by ReadPump's defer)
HubUnregister(c) ==
    /\ ~panicked
    /\ hub.pc = "select"
    /\ pc[c] = "unregister"
    /\ unregisterClient(c)
    /\ pc' = [pc EXCEPT ![c] = "done"]
    /\ UNCHANGED <<hub, nconn, sessionID, send, wr, pend, nframes, written, now,
                   readDeadline, repoVars>>

\* Hub.Run takes a message from h.broadcast (sent by handleDataUpdate) and
\* runs broadcastMessage: the session's clients, read under the lock, are
\* ranged over in any order with a non-blocking send to each.  At the first
\* client whose channel is full the hub sends that client on h.unregister, an
\* unbuffered channel whose only receiver is Hub.Run itself: it stays there,
\* the clients it has not come to (hub.todo) unserved (main.go:249-273).
\* served are the clients the loop came to before it met a full channel.
FullOf(to) == {r \in to : Len(send[r]) >= SendCap}

HubBroadcast(c, served, full) ==
    LET msg == pend[c]
        to == Recipients(msg)
    IN  /\ ~panicked
        /\ hub.pc = "select"
        /\ pc[c] = "broadcast"
        /\ IF \E r \in served : closed(r)
           THEN /\ panicked' = TRUE
                /\ UNCHANGED <<send, hub>>
           ELSE /\ send' = [r \in ClientIds |->
                              IF r \in served THEN Append(send[r], msg.Message)
                              ELSE send[r]]
                /\ hub' = IF full = NoClient THEN AtSelect
                          ELSE [pc |-> "evict", msg |-> msg, todo |-> to \ served,
                                client |-> full]
                /\ UNCHANGED panicked
        /\ pc' = [pc EXCEPT ![c] = "read"]
        /\ pend' = [pend EXCEPT ![c] = NoBroadcast]
        /\ UNCHANGED <<clients, nconn, sessionID, closes, wr, nframes, WSConnectionsActive,
                       written, now, readDeadline, repoVars>>

(***************************************************************************)
(* Repository.ProcessWebSocketMessage (repository.go:405-501).             *)
(***************************************************************************)
RepoState(err, a, c, m, sn, l) ==
    [err |-> err, anchors |-> a, meshHashCache |-> c, meshes |-> m, seen |-> sn, last |-> l]

RepoUntouched(err) == RepoState(err, anchors, meshHashCache, meshes, seen, last)

\* the history kept of a live update that did not come to the mesh pipeline:
\* the n-th call of the repository, the error returned, and where it ended
UpdateRecord(msg, err, stage, db) ==
    [NoRecord EXCEPT !.op = msg.type, !.n = ncalls + 1, !.err = err, !.stage = stage,
                     !.db = db]

processAnchorUpdate(msg, db) ==
    IF msg.data.json = "bad"
    THEN RepoState(ValidationErr, anchors, meshHashCache, meshes, seen,
                   UpdateRecord(msg, ValidationErr, "decode", db))
    ELSE LET w == ingestAnchor(anchors, AnchorOfUpdate(msg), db)
         IN  RepoState(w.err, w.col, meshHashCache, meshes, seen,
                       UpdateRecord(msg, w.err, "store", db))

processMeshUpdate(msg, db) ==
    IF MeshUpdateDecodeErr(msg.data) # NoErr
    THEN RepoState(ValidationErr, anchors, meshHashCache, meshes, seen,
                   UpdateRecord(msg, ValidationErr, "decode", db))
    ELSE LET mesh == MeshOfUpdate(msg.data)
             r == MeshPipeline(mesh, db)
         IN  RepoState(r.err, anchors, r.cache, r.meshes, SeenAfter(mesh, r),
                       MeshRecord(mesh, r))

ProcessWebSocketMessage(msg, db) ==
    IF msg.type = "anchor_update" THEN processAnchorUpdate(msg, db)
    ELSE IF msg.type = "mesh_update" THEN processMeshUpdate(msg, db)
    ELSE RepoUntouched(NoErr)

Commit(r) ==
    /\ ncalls' = ncalls + 1
    /\ anchors' = r.anchors
    /\ meshHashCache' = r.meshHashCache
    /\ meshes' = r.meshes
    /\ seen' = r.seen
    /\ last' = r.last
    /\ UNCHANGED <<resp, tasks>>

(***************************************************************************)
(* The streaming client (Client, main.go:302-471) and the upgrade handler  *)
(* (internal/server/handlers/websocket.go).                                *)
(***************************************************************************)
\* what a peer may send
MeshUpdates ==
    { WSData("ok", "m2", "a1", BadB64, B64(<<>>), B64(<<>>), FALSE, "") }

AnchorUpdates == { WSData("ok", a, "", B64(<<>>), B64(<<>>), B64(<<>>), FALSE, "") : a \in AnchorIds }

Inbound ==
    { WSMessage("ping", "", NoData), WSMessage("subscribe", "", NoData),
      WSMessage("garbage", "", NoData), WSMessage("anchor_update", "", BadData) }
    \cup { WSMessage("anchor_update", s, d) : s \in Sessions \cup {""}, d \in AnchorUpdates }
    \cup { WSMessage("mesh_update", "", d) : d \in MeshUpdates }

\* the events the peers have caused so far
Events == nconn + nframes + Cardinality({d \in ClientIds : pc[d] \in {"unregister", "done"}})

Named == {sessionID[c] : c \in 1..nconn}
FirstUse == Named \cup (IF "s1" \in Named THEN {"s2"} ELSE {"s1"})

\* HandleWebSocket: NewClient, then Hub.Register blocks on h.register
\* Session ids are opaque: a session not yet named by a connection is the
\* first one in Sessions' order not yet named.
Connect(s) ==
    /\ ~panicked
    /\ nconn < NumClients
    /\ Events < MaxEvents
    /\ s \in FirstUse
    /\ nconn' = nconn + 1
    /\ sessionID' = [sessionID EXCEPT ![nconn + 1] = s]
    /\ pc' = [pc EXCEPT ![nconn + 1] = "register"]
    /\ UNCHANGED <<clients, hub, send, closes, wr, pend, nframes, panicked,
                   WSConnectionsActive, written, now, readDeadline, repoVars>>

\* the non-blocking send of handlePing and sendError on the client's own
\* channel: a send on a closed channel panics, a full channel drops the frame
SelfSend(c, frame) ==
    IF closed(c) THEN /\ panicked' = TRUE
                      /\ UNCHANGED send
    ELSE /\ send' = [send EXCEPT ![c] = IF Len(@) < SendCap THEN Append(@, frame) ELSE @]
         /\ UNCHANGED panicked

sendError(c, code) == SelfSend(c, Frame("error", c, sessionID[c]))

\* ReadPump sets the session id of an envelope that carries none
WithSession(c, m) == [m EXCEPT !.session_id = IF @ = "" THEN sessionID[c] ELSE @]

\* handleDataUpdate broadcasting to the session the envelope names
BroadcastOfEnvelope(c, msg) ==
    BroadcastMessage(msg.session_id, DataFrame(msg.type, c, msg.session_id, ncalls + 1), c)

\* the BroadcastMessage of handleDataUpdate (main.go:439-444)
BroadcastOf(c, msg) ==
    BroadcastMessage(sessionID[c], DataFrame(msg.type, c, msg.session_id, ncalls + 1), c)

\* handleDataUpdate handing the update to the hub whatever the repository
\* returned
handleDataUpdateNoCheck(c, msg, db) ==
    LET r == ProcessWebSocketMessage(msg, db)
    IN  /\ Commit(r)
        /\ pend' = [pend EXCEPT ![c] = BroadcastOf(c, msg)]
        /\ pc' = [pc EXCEPT ![c] = "broadcast"]
        /\ UNCHANGED <<send, panicked>>

\* handleDataUpdate (main.go:424-445)
handleDataUpdate(c, msg, db) ==
    LET r == ProcessWebSocketMessage(msg, db)
    IN  /\ Commit(r)
        /\ IF r.err # NoErr
           THEN /\ sendError(c, "PROCESSING_ERROR")
                /\ UNCHANGED <<pc, pend>>
           ELSE /\ pend' = [pend EXCEPT ![c] = BroadcastOf(c, msg)]
                /\ pc' = [pc EXCEPT ![c] = "broadcast"]
                /\ UNCHANGED <<send, panicked>>

\* handlePing (main.go:402-421)
handlePing(c, msg) ==
    /\ SelfSend(c, Frame("pong", c, msg.session_id))
    /\ UNCHANGED <<pc, pend, repoVars>>

\* one turn of ReadPump's loop on a frame read from the socket before the
\* read deadline; no frame but a pong moves the deadline
ReadPump(c, m, db) ==
    /\ ~panicked
    /\ pc[c] = "read"
    /\ now <= readDeadline[c]
    /\ wr[c] = "run"
    /\ Events < MaxEvents
    /\ nframes' = nframes + 1
    /\ LET msg == WithSession(c, m)
       IN  IF m.type = "garbage"
           THEN /\ sendError(c, "INVALID_MESSAGE")
                /\ UNCHANGED <<pc, pend, repoVars>>
           ELSE IF m.type = "ping" THEN handlePing(c, msg)
           ELSE IF m.type \in {"anchor_update", "mesh_update"}
           THEN handleDataUpdate(c, msg, db)
           ELSE /\ sendError(c, "UNKNOWN_TYPE")
                /\ UNCHANGED <<pc, pend, repoVars>>
    /\ UNCHANGED <<clients, hub, nconn, sessionID, closes, wr, WSConnectionsActive, written,
                   now, readDeadline>>

\* ReadMessage fails (the peer is gone, the deadline passed, the connection
\* was closed): ReadPump breaks and its defer sends the client on h.unregister
ReadError(c) ==
    /\ ~panicked
    /\ pc[c] = "read"
    /\ Events < MaxEvents
    /\ pc' = [pc EXCEPT ![c] = "unregister"]
    /\ UNCHANGED <<clients, hub, nconn, sessionID, send, closes, wr, pend, nframes,
                   panicked, WSConnectionsActive, written, now, readDeadline, repoVars>>

\* WritePump writing the frame at the head of the channel and leaving it there
WritePumpNoDequeue(c) ==
    /\ ~panicked
    /\ wr[c] = "run"
    /\ send[c] # <<>>
    /\ written' = LET f == Head(send[c])
                  IN  IF f.n > 0 THEN [written EXCEPT ![c][f.from] = f.n] ELSE written
    /\ UNCHANGED <<clients, hub, nconn, sessionID, send, closes, pc, wr, pend, nframes,
                   panicked, WSConnectionsActive, now, readDeadline, repoVars>>

\* WritePump takes a frame from the channel (a closed channel still hands out
\* what it buffers) and writes it to the socket.  A write that fails ends the
\* pump and leaves the frames behind it undrained, as a peer that stops
\* reading does: the model keeps the pump and lets it run as late as it likes.
WritePump(c) ==
    /\ ~panicked
    /\ wr[c] = "run"
    /\ send[c] # <<>>
    /\ send' = [send EXCEPT ![c] = Tail(@)]
    /\ written' = LET f == Head(send[c])
                  IN  IF f.n > 0 THEN [written EXCEPT ![c][f.from] = f.n] ELSE written
    /\ UNCHANGED <<clients, hub, nconn, sessionID, closes, pc, wr, pend, nframes,
                   panicked, WSConnectionsActive, now, readDeadline, repoVars>>

\* WritePump finds the channel closed and drained, writes the close frame and
\* returns; its defer closes the connection (main.go:376-382)
WritePumpEnd(c) ==
    /\ ~panicked
    /\ wr[c] = "run"
    /\ send[c] = <<>>
    /\ closed(c)
    /\ wr' = [wr EXCEPT ![c] = "done"]
    /\ UNCHANGED <<clients, hub, nconn, sessionID, send, closes, pc, pend, nframes,
                   panicked, WSConnectionsActive, written, now, readDeadline, repoVars>>

(***************************************************************************)
(* Errors as the HTTP handlers see them (pkg/errors/errors.go).            *)
(***************************************************************************)
\* an *APIError of the given code, as the repository makes it; item is the
\* id an error message names, none in the messages of errors.go
APIError(code) == [wrapped |-> FALSE, code |-> code, item |-> ""]
NilError == APIError(NoErr)

\* fmt.Errorf("failed to ... %s: %w", id, err): the value returned is a
\* *fmt.wrapError that holds err, not an *APIError; its message names id
Errorf(err, id) == [wrapped |-> TRUE, code |-> err.code, item |-> id]

\* errors.IsAPIError: the type assertion err.(*APIError) on the value itself
IsAPIError(err) == ~err.wrapped

\* the StatusCode the constructors of errors.go give an APIError
StatusCode(code) == IF code = ValidationErr THEN 400 ELSE 500

(***************************************************************************)
(* Repository.Ingest on a whole event (repository.go:45-88).               *)
(***************************************************************************)
Event(session, as, ms) == [session_id |-> session, anchors |-> as, meshes |-> ms]

RECURSIVE IngestAnchors(_, _, _)
\* the anchor loop of Ingest: the first failure ends the batch, wrapped
IngestAnchors(col, as, db) ==
    IF as = <<>> THEN [err |-> NilError, col |-> col]
    ELSE LET w == ingestAnchor(col, Head(as), db)
         IN  IF w.err # NoErr
             THEN [err |-> Errorf(APIError(w.err), Head(as).id), col |-> col]
             ELSE IngestAnchors(w.col, Tail(as), db)

RECURSIVE IngestMeshes(_, _, _, _)
\* the mesh loop of Ingest: processMeshForStorage, then ingestMesh; the first
\* failure ends the batch, wrapped; the cache keeps what was written to it.
\* processMeshForStorage works on the loop's copy of the mesh through a
\* pointer: the id the message of a failed ingestMesh names is the id the
\* processor left in that copy.
IngestMeshes(cache, col, ms, db) ==
    IF ms = <<>> THEN [err |-> NilError, cache |-> cache, col |-> col]
    ELSE LET p == processMeshForStorage(cache, Head(ms))
             w == ingestMesh(col, p.mesh, db)
         IN  IF p.err # NoErr
             THEN [err |-> Errorf(APIError(p.err), Head(ms).id), cache |-> p.cache,
                   col |-> col]
             ELSE IF w.err # NoErr
             THEN [err |-> Errorf(APIError(w.err), p.mesh.id), cache |-> p.cache,
                   col |-> col]
             ELSE IngestMeshes(p.cache, w.col, Tail(ms), db)

\* Repository.Ingest on the repository's state
Ingest(event, db) ==
    LET a == IngestAnchors(anchors, event.anchors, db)
        m == IngestMeshes(meshHashCache, meshes, event.meshes, db)
    IN  IF a.err # NilError
        THEN [err |-> a.err, anchors |-> a.col, cache |-> meshHashCache, meshes |-> meshes]
        ELSE [err |-> m.err, anchors |-> a.col, cache |-> m.cache, meshes |-> m.col]

(***************************************************************************)
(* Repository.Query (repository.go:193-392).                               *)
(***************************************************************************)
\* the limit the handler and buildQuery fall back to, and the handler's cap
DefaultLimit == 100
MaxLimit == 1000

\* api.QueryParams; since and until are left at zero
QueryParams(session, anchor, radius, limit, include) ==
    [session_id |-> session, anchor_id |-> anchor, radius |-> radius, limit |-> limit,
     include_meshes |-> include]

\* buildQuery leaving the session filter out
buildQueryNoSession(params) ==
    [session_id |-> "",
     spatial |-> params.anchor_id # "" /\ params.radius > 0,
     anchor_id |-> params.anchor_id,
     limit |-> IF params.limit > 0 THEN params.limit ELSE DefaultLimit]

\* buildQuery: the filters, the sort and the limit of the AQL it writes
buildQuery(params) ==
    [session_id |-> params.session_id,
     spatial |-> params.anchor_id # "" /\ params.radius > 0,
     anchor_id |-> params.anchor_id,
     limit |-> IF params.limit > 0 THEN params.limit ELSE DefaultLimit]

\* the anchors the FILTER of the query keeps.  Poses are not part of the
\* model: of the spatial filter only "refAnchor != null" is kept.
Matching(col, q) ==
    {col[k] : k \in {x \in DOMAIN col :
                       /\ q.session_id # "" => col[x].session_id = q.session_id
                       /\ q.spatial => \E y \in DOMAIN col : col[y].id = q.anchor_id}}

Min(a, b) == IF a < b THEN a ELSE b

\* SORT doc.timestamp DESC, LIMIT n: the sequences the store may return; rows
\* of equal timestamp come in any order
SortedLimited(rows, n) ==
    LET k == Cardinality(rows)
        orders == {f \in [1..k -> rows] :
                     /\ \A i, j \in 1..k : i # j => f[i] # f[j]
                     /\ \A i, j \in 1..k : i < j => f[i].timestamp >= f[j].timestamp}
    IN  {SubSeq(f, 1, Min(n, k)) : f \in orders}

RECURSIVE resolveDeltaMeshNoRename(_, _, _)
\* resolveDeltaMesh returning the resolved base as it is, its id and
\* timestamp not overwritten with the delta's
resolveDeltaMeshNoRename(col, deltaMesh, visited) ==
    IF ~deltaMesh.is_delta \/ deltaMesh.base_mesh_id = ""
    THEN [kind |-> "ok", mesh |-> deltaMesh]
    ELSE IF ~StoreHas(col, deltaMesh.base_mesh_id)
    THEN [kind |-> "err", mesh |-> NilMesh]
    ELSE IF deltaMesh.base_mesh_id \in visited
    THEN [kind |-> "overflow", mesh |-> NilMesh]
    ELSE LET baseMesh == col[deltaMesh.base_mesh_id]
         IN  IF baseMesh.is_delta
             THEN resolveDeltaMeshNoRename(col, baseMesh,
                                           visited \cup {deltaMesh.base_mesh_id})
             ELSE [kind |-> "ok", mesh |-> baseMesh]

RECURSIVE resolveDeltaMeshFrom(_, _, _)
\* resolveDeltaMesh, the ids in visited being the bases read on the way to
\* this call.  The store does not change while a mesh is resolved, so a call
\* that reads a base already read repeats itself for ever: the recursion has
\* no end and the goroutine's stack overflows ("overflow").
resolveDeltaMeshFrom(col, deltaMesh, visited) ==
    IF ~deltaMesh.is_delta \/ deltaMesh.base_mesh_id = ""
    THEN [kind |-> "ok", mesh |-> deltaMesh]
    ELSE IF ~StoreHas(col, deltaMesh.base_mesh_id)
    THEN [kind |-> "err", mesh |-> NilMesh]
    ELSE IF deltaMesh.base_mesh_id \in visited
    THEN [kind |-> "overflow", mesh |-> NilMesh]
    ELSE LET baseMesh == col[deltaMesh.base_mesh_id]
             resolvedBase ==
                 IF baseMesh.is_delta
                 THEN resolveDeltaMeshFrom(col, baseMesh,
                                           visited \cup {deltaMesh.base_mesh_id})
                 ELSE [kind |-> "ok", mesh |-> baseMesh]
         IN  IF resolvedBase.kind # "ok" THEN resolvedBase
             ELSE [kind |-> "ok",
                   mesh |-> [resolvedBase.mesh EXCEPT !.id = deltaMesh.id,
                                                     !.timestamp = deltaMesh.timestamp]]

\* resolveDeltaMesh (repository.go:358-392)
resolveDeltaMesh(col, deltaMesh) == resolveDeltaMeshFrom(col, deltaMesh, {})

\* loadMeshesForAnchors that returns a delta it could not resolve as stored
loadMeshesKeepUnresolved(col, as) ==
    LET ids == {as[i].id : i \in 1..Len(as)}
        rows == {col[k] : k \in {x \in DOMAIN col : col[x].anchor_id \in ids}}
    IN  IF \E m \in rows : resolveDeltaMesh(col, m).kind = "overflow"
        THEN [kind |-> "overflow", meshes |-> {}]
        ELSE [kind |-> "ok",
              meshes |-> {IF resolveDeltaMesh(col, m).kind = "ok"
                          THEN resolveDeltaMesh(col, m).mesh ELSE m : m \in rows}]

\* loadMeshesForAnchors: the rows of the anchors' meshes, deltas resolved; a
\* delta that fails to resolve is left out
loadMeshesForAnchors(col, as) ==
    LET ids == {as[i].id : i \in 1..Len(as)}
        rows == {col[k] : k \in {x \in DOMAIN col : col[x].anchor_id \in ids}}
    IN  IF \E m \in rows : resolveDeltaMesh(col, m).kind = "overflow"
        THEN [kind |-> "overflow", meshes |-> {}]
        ELSE [kind |-> "ok",
              meshes |-> {resolveDeltaMesh(col, m).mesh :
                            m \in {x \in rows : resolveDeltaMesh(col, x).kind = "ok"}}]

\* Repository.Query with the anchors the store returned
Query(params, as, db) ==
    IF db = "down"
    THEN [kind |-> "err", err |-> APIError(DatabaseErr), anchors |-> <<>>, meshes |-> {},
          has_more |-> FALSE]
    ELSE LET l == IF params.include_meshes /\ Len(as) > 0
                  THEN loadMeshesForAnchors(meshes, as)
                  ELSE [kind |-> "ok", meshes |-> {}]
         IN  [kind |-> l.kind, err |-> NilError, anchors |-> as, meshes |-> l.meshes,
              has_more |-> Len(as) >= params.limit]

(***************************************************************************)
(* The HTTP handlers (internal/server/handlers).                           *)
(***************************************************************************)
\* a request (op, req, and what the store does during it) and the response
\* written to it: status, error code, and the anchors and meshes of the body;
\* err is the error the repository returned to the handler
Response(op, req, db, status, code, as, ms) ==
    [op |-> op, req |-> req, db |-> db, status |-> status, code |-> code,
     anchors |-> as, meshes |-> ms, err |-> NilError]

NoResponse == Response("none", Event("", <<>>, <<>>), "ok", 0, "", <<>>, {})

\* the response the handlers write for an error of the repository: an
\* *APIError gives its status and code, any other error a plain 500
ErrorResponse(op, req, db, err) ==
    IF IsAPIError(err)
    THEN [Response(op, req, db, StatusCode(err.code), err.code, <<>>, {}) EXCEPT !.err = err]
    ELSE [Response(op, req, db, 500, "", <<>>, {}) EXCEPT !.err = err]

\* the limit QueryHandler.Query hands to the repository
HandlerLimit(limit) ==
    IF limit <= 0 THEN DefaultLimit ELSE IF limit > MaxLimit THEN MaxLimit ELSE limit

(***************************************************************************)
(* The hub and its clients: NewHub, NewRepository, and every goroutine.    *)
(***************************************************************************)
Init ==
    /\ clients = EmptyMap
    /\ hub = AtSelect
    /\ nconn = 0
    /\ sessionID = [c \in ClientIds |-> ""]
    /\ send = [c \in ClientIds |-> <<>>]
    /\ closes = [c \in ClientIds |-> 0]
    /\ pc = [c \in ClientIds |-> "none"]
    /\ wr = [c \in ClientIds |-> "none"]
    /\ pend = [c \in ClientIds |-> NoBroadcast]
    /\ nframes = 0
    /\ panicked = FALSE
    /\ WSConnectionsActive = [s \in Sessions |-> 0]
    /\ written = [c \in ClientIds |-> [d \in ClientIds |-> 0]]
    /\ now = 0
    /\ readDeadline = [c \in ClientIds |-> 0]
    /\ meshHashCache = EmptyMap
    /\ meshes = EmptyMap
    /\ anchors = EmptyMap
    /\ seen = EmptyMap
    /\ ncalls = 0
    /\ last = NoRecord
    /\ resp = NoResponse
    /\ tasks = [t \in Tasks |-> IdleTask]

\* the hub goroutine
HubStep ==
    \/ \E c \in ClientIds : HubRegister(c)
    \/ \E c \in ClientIds : HubUnregister(c)
    \/ \E c \in ClientIds :
          LET to == Recipients(pend[c])
          IN  IF FullOf(to) = {} THEN HubBroadcast(c, to, NoClient)
              ELSE \E full \in FullOf(to), served \in SUBSET (to \ FullOf(to)) :
                      HubBroadcast(c, served, full)

Next ==
    \/ HubStep
    \/ \E s \in Sessions : Connect(s)
    \/ \E c \in ClientIds, m \in Inbound, db \in {"ok", "down"} : ReadPump(c, m, db)
    \/ \E c \in ClientIds : ReadError(c)
    \/ \E c \in ClientIds : WritePump(c)
    \/ \E c \in ClientIds : WritePumpEnd(c)

Spec == Init /\ [][Next]_vars

\* Hub.Run is one goroutine of a fair scheduler: a step it can take, it takes
FairSpec == Spec /\ WF_vars(HubStep)

\* the WritePump goroutines are scheduled fairly: a writer that finds its
\* channel closed and drained returns
FairSpecWriters == Spec /\ \A c \in ClientIds : WF_vars(WritePumpEnd(c))

(***************************************************************************)
(* The repository under sequentially executed ingests: the turns of the    *)
(* loops of Repository.Ingest (repository.go:45-88) and the live updates   *)
(* handed to ProcessWebSocketMessage, one call at a time.                  *)
(***************************************************************************)
\* the meshes a client may post
FullMeshes ==
    { Mesh(id, "a1", v, f, n, <<>>, FALSE, "", <<>>) :
        id \in MeshIds, v \in Payloads, f \in Payloads, n \in Payloads }

\* delta meshes: posted with vertices of their own besides the delta_data
DeltaMeshes ==
    { Mesh(id, "a1", <<1>>, f, <<>>, <<>>, TRUE, base, dd) :
        id \in MeshIds, f \in Payloads, base \in {"", "m1"}, dd \in Payloads }

MeshInputs == FullMeshes \cup DeltaMeshes

\* the mesh updates a live client may send
LiveMeshUpdates ==
    { WSData("ok", "m2", "a1", B64(v), B64(f), B64(<<>>), TRUE, base) :
        v \in Payloads, f \in Payloads, base \in {"", "m1"} }

\* one turn of the mesh loop of Ingest: processMeshForStorage, then ingestMesh
IngestMesh(mesh, db) ==
    /\ ncalls < MaxCalls
    /\ RunMeshPipeline(mesh, MeshPipeline(mesh, db))
    /\ UNCHANGED <<anchors, hubVars>>

\* one turn of the anchor loop of Ingest
IngestAnchor(anchor, db) ==
    /\ ncalls < MaxCalls
    /\ ncalls' = ncalls + 1
    /\ anchors' = ingestAnchor(anchors, anchor, db).col
    /\ UNCHANGED <<meshHashCache, meshes, seen, last, resp, tasks, hubVars>>

\* a mesh_update handed to ProcessWebSocketMessage by a client's reader
LiveMeshUpdate(u, db) ==
    /\ ncalls < MaxCalls
    /\ Commit(ProcessWebSocketMessage(WSMessage("mesh_update", "s1", u), db))
    /\ UNCHANGED hubVars

NextRepo ==
    \/ \E mesh \in MeshInputs, db \in {"ok", "down"} : IngestMesh(mesh, db)
    \/ \E a \in AnchorIds, s \in Sessions, db \in {"ok", "down"} :
          IngestAnchor(Anchor(a, s), db)
    \/ \E u \in LiveMeshUpdates, db \in {"ok", "down"} : LiveMeshUpdate(u, db)

SpecRepo == Init /\ [][NextRepo]_vars

(***************************************************************************)
(* The HTTP API over the repository: POST /api/v1/ingest, GET              *)
(* /api/v1/query, GET /api/v1/anchors/:id, one request at a time, and the  *)
(* anchor updates of live clients.                                         *)
(***************************************************************************)
hubIdle == <<clients, hub, nconn, sessionID, send, closes, pc, wr, pend, nframes,
             WSConnectionsActive, written, now, readDeadline>>

\* IngestHandler.Ingest (handlers/websocket.go:97-151)
HandleIngest(event, db) ==
    /\ ~panicked
    /\ ncalls < MaxCalls
    /\ ncalls' = ncalls + 1
    /\ IF event.session_id = ""
       THEN /\ resp' = Response("ingest", event, db, 400, "", <<>>, {})
            /\ UNCHANGED <<anchors, meshHashCache, meshes>>
       ELSE LET r == Ingest(event, db)
            IN  /\ anchors' = r.anchors
                /\ meshHashCache' = r.cache
                /\ meshes' = r.meshes
                /\ resp' = IF r.err = NilError
                           THEN Response("ingest", event, db, 200, "", <<>>, {})
                           ELSE ErrorResponse("ingest", event, db, r.err)
    /\ UNCHANGED <<seen, last, tasks, hubVars>>

\* QueryHandler.Query (part_000:29-85).  A resolution that never ends takes
\* the process down with the goroutine's stack.
HandleQuery(params, db) ==
    /\ ~panicked
    /\ IF params.session_id = "" /\ params.anchor_id = ""
       THEN /\ resp' = Response("query", params, db, 400, "", <<>>, {})
            /\ UNCHANGED panicked
       ELSE IF params.anchor_id # "" /\ params.radius <= 0
       THEN /\ resp' = Response("query", params, db, 400, "", <<>>, {})
            /\ UNCHANGED panicked
       ELSE LET p == [params EXCEPT !.limit = HandlerLimit(@)]
                q == buildQuery(p)
            IN  \E as \in SortedLimited(Matching(anchors, q), q.limit) :
                   LET r == Query(p, as, db)
                   IN  IF r.kind = "overflow"
                       THEN /\ panicked' = TRUE
                            /\ UNCHANGED resp
                       ELSE /\ resp' = IF r.kind = "err"
                                       THEN ErrorResponse("query", params, db, r.err)
                                       ELSE Response("query", params, db, 200, "",
                                                     r.anchors, r.meshes)
                            /\ UNCHANGED panicked
    /\ UNCHANGED <<hubIdle, meshHashCache, meshes, anchors, seen, ncalls, last, tasks>>

\* QueryHandler.GetAnchor (part_000:88-128)
HandleGetAnchor(id, db) ==
    /\ ~panicked
    /\ IF id = ""
       THEN resp' = Response("get_anchor", id, db, 400, "", <<>>, {})
       ELSE LET p == QueryParams("", id, 0, 1, FALSE)
                q == buildQuery(p)
            IN  \E as \in SortedLimited(Matching(anchors, q), q.limit) :
                   LET r == Query(p, as, db)
                   IN  resp' = IF r.kind = "err"
                               THEN ErrorResponse("get_anchor", id, db, r.err)
                               ELSE IF Len(r.anchors) = 0
                               THEN Response("get_anchor", id, db, 404, "", <<>>, {})
                               ELSE Response("get_anchor", id, db, 200, "",
                                             <<r.anchors[1]>>, {})
    /\ UNCHANGED <<hubVars, meshHashCache, meshes, anchors, seen, ncalls, last, tasks>>

\* an anchor_update handed to ProcessWebSocketMessage by a client's reader
LiveAnchorUpdate(msg, db) ==
    /\ ~panicked
    /\ ncalls < MaxCalls
    /\ ncalls' = ncalls + 1
    /\ LET r == ProcessWebSocketMessage(msg, db)
       IN  /\ anchors' = r.anchors
           /\ meshHashCache' = r.meshHashCache
           /\ meshes' = r.meshes
           /\ resp' = Response("anchor_update", msg, db, 0, r.err, <<>>, {})
    /\ UNCHANGED <<seen, last, tasks, hubVars>>

\* what the clients of the HTTP API send: events whose anchors carry the
\* event's session
HttpAnchorIds == {"a1", "a2"}
Limits == {0, 1, 1001}

HttpAnchors(s) ==
    { <<>>, <<AnchorAt("a1", s, 1)>>, <<AnchorAt("a1", s, 2)>>, <<AnchorAt("a2", s, 1)>>,
      <<AnchorAt("a1", s, 1), AnchorAt("a1", s, 2)>> }

HttpMeshes ==
    { <<>>,
      <<Mesh("m1", "a1", <<1>>, <<>>, <<>>, <<>>, FALSE, "", <<>>)>>,
      <<Mesh("m2", "a2", <<1>>, <<>>, <<>>, <<>>, FALSE, "", <<>>)>>,
      <<Mesh("m2", "a1", <<1>>, <<>>, <<>>, <<>>, TRUE, "", <<1>>)>> }

HttpEvents ==
    UNION {{Event(s, as, ms) : as \in HttpAnchors(s), ms \in HttpMeshes} : s \in Sessions}

HttpQueries ==
    {QueryParams(s, "", 0, l, FALSE) : s \in Sessions, l \in Limits}
    \cup {QueryParams(s, "", 0, 0, TRUE) : s \in Sessions}
    \cup {QueryParams("", "", 0, 0, FALSE), QueryParams("", "a1", 0, 0, FALSE)}

LiveAnchorUpdates ==
    {WSMessage("anchor_update", s, d) : s \in Sessions, d \in AnchorUpdates}
    \cup {WSMessage("anchor_update", "s1", BadData)}

NextHTTP ==
    \/ \E e \in HttpEvents, db \in {"ok", "down"} : HandleIngest(e, db)
    \/ \E p \in HttpQueries, db \in {"ok", "down"} : HandleQuery(p, db)
    \/ \E id \in HttpAnchorIds, db \in {"ok", "down"} : HandleGetAnchor(id, db)
    \/ \E m \in LiveAnchorUpdates, db \in {"ok", "down"} : LiveAnchorUpdate(m, db)

SpecHTTP == Init /\ [][NextHTTP]_vars

(***************************************************************************)
(* The HTTP API with chains of delta meshes in the store.                  *)
(***************************************************************************)
DeltaIds == {"m1", "m2", "m3"}

\* a full mesh m1 on the anchor a1 or, with other content, on the anchor a2,
\* and delta meshes of every id on the bases m1 and m2, each with a timestamp
\* of its own
DeltaChainMeshes ==
    { MeshAt(Mesh("m1", "a1", <<1>>, <<1>>, <<>>, <<>>, FALSE, "", <<>>), 1),
      MeshAt(Mesh("m1", "a2", <<>>, <<1>>, <<>>, <<>>, FALSE, "", <<>>), 1) }
    \cup { MeshAt(Mesh(id, "a1", <<>>, <<>>, <<>>, <<>>, TRUE, base, <<1>>),
                  IF id = "m3" THEN 3 ELSE 2) :
             id \in DeltaIds, base \in {"m1", "m2"} }

DeltaEvents ==
    { Event("s1", as, ms) : as \in {<<>>, <<AnchorAt("a1", "s1", 1)>>},
                            ms \in {<<>>} \cup {<<m>> : m \in DeltaChainMeshes} }

NextDelta ==
    \/ \E e \in DeltaEvents, db \in {"ok", "down"} : HandleIngest(e, db)
    \/ \E db \in {"ok", "down"} : HandleQuery(QueryParams("s1", "", 0, 0, TRUE), db)

SpecDelta == Init /\ [][NextDelta]_vars

(***************************************************************************)
(* POST /api/v1/ingest with events of several anchors and meshes.          *)
(***************************************************************************)
\* events of session s1: no, one or two anchors; no mesh, one of two meshes
\* of the same content, or two meshes of which one may be a delta mesh that
\* names no base
BatchAnchors ==
    { <<>>, <<AnchorAt("a1", "s1", 1)>>,
      <<AnchorAt("a1", "s1", 1), AnchorAt("a2", "s1", 1)>> }

BatchMeshes ==
    LET full(id, v) == Mesh(id, "a1", v, <<>>, <<>>, <<>>, FALSE, "", <<>>)
        nobase(id) == Mesh(id, "a1", <<>>, <<>>, <<>>, <<>>, TRUE, "", <<1>>)
    IN  { <<>>, <<full("m1", <<1>>)>>, <<full("m2", <<1>>)>>,
          <<full("m1", <<1>>), full("m2", <<>>)>>,
          <<nobase("m1"), full("m2", <<>>)>>,
          <<full("m2", <<>>), nobase("m1")>> }

BatchEvents == { Event("s1", as, ms) : as \in BatchAnchors, ms \in BatchMeshes }

NextBatch == \E e \in BatchEvents, db \in {"ok", "down"} : HandleIngest(e, db)

SpecBatch == Init /\ [][NextBatch]_vars

(***************************************************************************)
(* Properties of the hub.                                                  *)
(***************************************************************************)
DataTypes == {"anchor_update", "mesh_update"}

\* the frames buffered on the send channel of a client
Queued(c) == {send[c][i] : i \in 1..Len(send[c])}

Registered(c) == sessionID[c] \in DOMAIN clients /\ c \in clients[sessionID[c]]

SizeOf(s) == IF s \in DOMAIN clients THEN Cardinality(clients[s]) ELSE 0

\* the step in which Hub.Run handles the registration of c
RegisterStep(c) == pc[c] = "register" /\ pc'[c] = "read"

\* the step in which Hub.Run handles the unregistration of c
UnregisterStep(c) == pc[c] = "unregister" /\ pc'[c] = "done"

\* the step in which Hub.Run handles the broadcast of c
BroadcastStep(c) == pc[c] = "broadcast" /\ pc'[c] = "read"

\* C1: no session ever holds more than maxClientsPerSession registered
\* clients; a registration handled while the session already holds that many
\* leaves every session's set as it was, the client outside it, and closes
\* that client's send queue.
C1_SessionCap ==
    /\ [](\A s \in DOMAIN clients : Cardinality(clients[s]) <= maxClientsPerSession)
    /\ [][\A c \in ClientIds :
            RegisterStep(c) /\ SizeOf(sessionID[c]) >= maxClientsPerSession
            => /\ clients' = clients
               /\ ~Registered(c)'
               /\ closes[c] = 0 /\ closes'[c] = 1]_vars

\* a client was turned away from a full session: its queue is closed, it is
\* not in the set, and its reader runs
C1_Rejected ==
    \E c \in ClientIds :
        /\ pc[c] = "read" /\ closed(c) /\ ~Registered(c)
        /\ SizeOf(sessionID[c]) = maxClientsPerSession

\* C2: a data update that client c broadcasts is never put on c's own send
\* queue.
C2_NoEcho ==
    \A c \in ClientIds : \A f \in Queued(c) : f.type \in DataTypes => f.from # c

\* a data update of a registered client sits on the queue of another client
C2_Delivered ==
    \E c, d \in ClientIds :
        /\ c # d /\ Registered(c)
        /\ \E f \in Queued(d) : f.type \in DataTypes /\ f.from = c

\* C3: when the hub handles the broadcast of an accepted data update of
\* client c, every other client registered in c's session whose send queue is
\* not full has the frame put on its queue.
C3_FanOut ==
    [][\A c \in ClientIds :
         BroadcastStep(c) /\ ~panicked'
         => \A r \in Recipients(pend[c]) :
               Len(send[r]) < SendCap => send'[r] = Append(send[r], pend[c].Message)]_vars

\* C4: a data update is delivered only to clients whose bound session is the
\* sender's bound session, whatever session the envelope names.
C4_SessionIsolation ==
    \A d \in ClientIds : \A f \in Queued(d) :
        f.type \in DataTypes => sessionID[f.from] = sessionID[d]

\* a client holds a data update whose envelope names another session than
\* the one the sender and the client are bound to
C4_ForeignEnvelope ==
    \E d \in ClientIds : \E f \in Queued(d) :
        /\ f.type \in DataTypes /\ f.from # d
        /\ f.session_id # sessionID[d] /\ f.session_id \in Named

\* C5: a client whose send queue is found full by a broadcast is
\* unregistered: removed from its session's set and its queue closed.
C5_OverflowUnregisters ==
    \A c \in ClientIds :
        (hub.pc = "evict" /\ hub.client = c) ~> ((~Registered(c) /\ closed(c)) \/ panicked)

\* C6 as stated: a send queue is closed only by the hub's unregistration of
\* its client, and at most once.
C6_ClosedByUnregisterOnly ==
    [][\A c \in ClientIds :
         closes'[c] # closes[c] => closes[c] = 0 /\ UnregisterStep(c)]_vars

\* C6: a send queue is closed at most once, and only by the hub loop: by the
\* unregistration of a client that is in its session's set, which removes it,
\* or by the registration that turns the client away from a full session.
C6_ClosedOnceByHub ==
    [][\A c \in ClientIds :
         closes'[c] # closes[c]
         => /\ closes[c] = 0 /\ closes'[c] = 1
            /\ \/ UnregisterStep(c) /\ Registered(c) /\ ~Registered(c)'
               \/ /\ RegisterStep(c) /\ ~Registered(c)'
                  /\ SizeOf(sessionID[c]) >= maxClientsPerSession]_vars

\* one queue was closed by the unregistration of its client, another by the
\* registration that turned its client away
C6_BothCloses ==
    \E c, d \in ClientIds :
        /\ pc[c] = "done" /\ closes[c] = 1
        /\ pc[d] = "read" /\ closes[d] = 1 /\ ~Registered(d)

(***************************************************************************)
(* Properties of the repository.                                           *)
(***************************************************************************)
\* the step that runs the mesh pipeline once; last' is its record
MeshStep == last'.n # last.n

\* the hash computeMeshHash gives a geometry
HashOfGeometry(g) == computeMeshHash([vertices |-> g[1], faces |-> g[2], normals |-> g[3]])

SizeOfGeometry(mesh) == Len(mesh.vertices) + Len(mesh.faces) + Len(mesh.normals)

FullRowsIn(col, h) == {k \in DOMAIN col : ~col[k].is_delta /\ col[k].hash = h}
FullRows(h) == FullRowsIn(meshes, h)

\* C7: a non-delta mesh processed after a mesh of the same vertices, faces
\* and normals carries the id the earlier mesh's processed result carries, and
\* the bytes saved are the sizes of the three arrays together; a mesh whose
\* hash occurs for the first time keeps its own id and saves nothing.
C7_DedupRewritesId ==
    [][MeshStep /\ ~last'.in.is_delta
       => LET m == last'.in
              g == Geometry(m)
          IN  /\ g \in DOMAIN seen
                 => last'.out.id = seen[g] /\ last'.saved = SizeOfGeometry(m)
              /\ (\A k \in DOMAIN seen : HashOfGeometry(k) # computeMeshHash(m))
                 => last'.out.id = m.id /\ last'.saved = 0
              /\ last'.out.hash = computeMeshHash(m)]_vars

\* the last mesh processed had the geometry of an earlier one and another
\* id: it carries the earlier id and counts its bytes as saved
C7_Rewritten ==
    /\ last.op = "mesh" /\ ~last.in.is_delta
    /\ last.out.id # last.in.id
    /\ last.saved = SizeOfGeometry(last.in) /\ last.saved > 0

\* C8: the store holds at most one non-delta mesh row for a content hash; a
\* mesh ingested after a stored mesh of the same content and another id is
\* accepted, and when the store takes the call it succeeds and adds no row.
C8_OneRowPerHash ==
    /\ [](\A k1, k2 \in DOMAIN meshes :
            ~meshes[k1].is_delta /\ ~meshes[k2].is_delta /\ k1 # k2
            => meshes[k1].hash # meshes[k2].hash)
    /\ [][MeshStep /\ ~last'.in.is_delta
          /\ Geometry(last'.in) \in DOMAIN seen
          /\ seen[Geometry(last'.in)] # last'.in.id
          /\ FullRows(computeMeshHash(last'.in)) # {}
          => /\ last'.stage = "store"
             /\ last'.db = "ok" => last'.err = NoErr
             /\ meshes' = meshes
             /\ Cardinality(FullRowsIn(meshes', computeMeshHash(last'.in))) = 1]_vars

\* two ingests of the same content under two ids succeeded and the store
\* holds one row, under the first id
C8_TwoIngestsOneRow ==
    /\ last.op = "mesh" /\ ~last.in.is_delta /\ last.err = NoErr /\ last.n = 2
    /\ last.out.id # last.in.id
    /\ DOMAIN meshes = {last.out.id}
    /\ FullRows(computeMeshHash(last.in)) = {last.out.id}

\* C9: a delta mesh that names no base mesh is refused with a validation
\* error and nothing is stored or cached; the same mesh naming a base is
\* accepted by the processor and handed to the store.
C9_DeltaNeedsBase ==
    /\ [](\A k \in DOMAIN meshes : meshes[k].is_delta => meshes[k].base_mesh_id # "")
    /\ [][MeshStep /\ last'.in.is_delta
          => IF last'.in.base_mesh_id = ""
             THEN /\ last'.err = ValidationErr /\ last'.stage = "process"
                  /\ meshes' = meshes /\ meshHashCache' = meshHashCache
             ELSE /\ last'.err # ValidationErr /\ last'.stage = "store"
                  /\ (last'.db = "ok" => /\ last'.err = NoErr
                                         /\ last'.in.id \in DOMAIN meshes')]_vars

\* a delta mesh naming no base was refused after the same mesh, naming one,
\* was stored
C9_Refused ==
    /\ last.op = "mesh" /\ last.in.is_delta /\ last.in.base_mesh_id = ""
    /\ last.err = ValidationErr
    /\ last.in.id \in DOMAIN meshes
    /\ meshes[last.in.id].is_delta
    /\ meshes[last.in.id].delta_data = last.in.delta_data

\* C10: an accepted delta mesh is stored with its delta_data as its vertices
\* and with empty faces and normals.
C10_DeltaNormalised ==
    \A k \in DOMAIN meshes :
        meshes[k].is_delta /\ meshes[k].base_mesh_id # ""
        => /\ meshes[k].vertices = meshes[k].delta_data
           /\ meshes[k].faces = <<>>
           /\ meshes[k].normals = <<>>

(***************************************************************************)
(* Properties of the HTTP API and of the store behind it.                  *)
(***************************************************************************)
SeqRange(q) == {q[i] : i \in 1..Len(q)}

\* the step that answers a request of the given kind
RequestStep(op) == resp' # resp /\ resp'.op = op

\* C11: POST /api/v1/ingest of an event with a delta mesh that names no base
\* is answered with status 400 and code VALIDATION_ERROR, the store being up.
C11_IngestValidation400 ==
    (/\ resp.op = "ingest" /\ resp.db = "ok"
     /\ \E m \in SeqRange(resp.req.meshes) : m.is_delta /\ m.base_mesh_id = "")
    => resp.status = 400 /\ resp.code = ValidationErr

\* C12: a mesh row never changes once it is stored, a new row is the
\* processed mesh that was handed to the store, and a mesh that comes to the
\* store with the id of a stored row is answered with success, the store
\* being up, and leaves the collection as it is.
C12_MeshRowImmutable ==
    [][/\ \A k \in DOMAIN meshes : k \in DOMAIN meshes' /\ meshes'[k] = meshes[k]
       /\ \A k \in DOMAIN meshes' \ DOMAIN meshes : MeshStep /\ meshes'[k] = last'.out
       /\ (MeshStep /\ last'.stage = "store" /\ last'.out.id \in DOMAIN meshes)
          => /\ meshes' = meshes
             /\ last'.db = "ok" => last'.err = NoErr]_vars

\* a mesh of other content than the stored row came with the row's id, was
\* answered with success, and the row is as it was
C12_LaterIngestIgnored ==
    /\ last.op = "mesh" /\ last.stage = "store" /\ last.err = NoErr
    /\ last.out.id = last.in.id
    /\ last.out.id \in DOMAIN meshes
    /\ Geometry(meshes[last.out.id]) # Geometry(last.out)

\* the step that serves an ingest or a live update of the given kind
WriteStep(op) == ncalls' # ncalls /\ resp'.op = op

IdsOf(as) == {as[i].id : i \in 1..Len(as)}

\* the last anchor of the given id in a sequence of anchors
LastOf(as, id) ==
    as[CHOOSE i \in 1..Len(as) :
          as[i].id = id /\ \A j \in 1..Len(as) : as[j].id = id => j <= i]

\* C13: the anchors collection holds one row per anchor id, and after a
\* successful ingest or live anchor_update the row of every anchor id of the
\* request is the last anchor the request carries for that id, every other
\* row being as it was; a failed request changes no row but those it names.
C13_AnchorUpsert ==
    /\ [](\A k \in DOMAIN anchors : anchors[k].id = k)
    /\ [][/\ (WriteStep("ingest") /\ resp'.status = 200)
             => /\ DOMAIN anchors' = DOMAIN anchors \cup IdsOf(resp'.req.anchors)
                /\ \A id \in IdsOf(resp'.req.anchors) :
                      anchors'[id] = LastOf(resp'.req.anchors, id)
          /\ (WriteStep("anchor_update") /\ resp'.code = NoErr)
             => /\ DOMAIN anchors' = DOMAIN anchors \cup {resp'.req.data.id}
                /\ anchors'[resp'.req.data.id].id = resp'.req.data.id
                /\ anchors'[resp'.req.data.id].session_id = resp'.req.session_id
          /\ \A k \in DOMAIN anchors :
                /\ k \in DOMAIN anchors'
                /\ anchors'[k] # anchors[k]
                   => \/ WriteStep("ingest") /\ k \in IdsOf(resp'.req.anchors)
                      \/ WriteStep("anchor_update") /\ k = resp'.req.data.id]_vars

\* an event that carries an anchor id twice was ingested over a stored row
\* of that id: the row is the second anchor of the event
C13_LastWriteWins ==
    /\ resp.op = "ingest" /\ resp.status = 200 /\ ncalls >= 2
    /\ Len(resp.req.anchors) = 2
    /\ anchors["a1"] = resp.req.anchors[2]
    /\ anchors["a1"] # resp.req.anchors[1]

\* the rows of the anchors collection that belong to a session
RowsOfSession(S) == {anchors[k] : k \in {x \in DOMAIN anchors : anchors[x].session_id = S}}

\* C14: a query by session S with limit L is answered with stored anchors of
\* session S only, no anchor twice, newest first, and as many of them as the
\* session holds up to L, where L is 100 when none is given and at most 1000;
\* no anchor left out is newer than one returned.
C14_QueryBySession ==
    [][(RequestStep("query") /\ resp'.status = 200 /\ resp'.req.session_id # "")
       => LET as == resp'.anchors
              S == resp'.req.session_id
              l == resp'.req.limit
              L == IF l <= 0 THEN 100 ELSE IF l > 1000 THEN 1000 ELSE l
          IN  /\ SeqRange(as) \subseteq RowsOfSession(S)
              /\ \A i, j \in 1..Len(as) : i < j =>
                    as[i] # as[j] /\ as[i].timestamp >= as[j].timestamp
              /\ Len(as) = Min(L, Cardinality(RowsOfSession(S)))
              /\ \A x \in RowsOfSession(S) \ SeqRange(as), y \in SeqRange(as) :
                    x.timestamp <= y.timestamp]_vars

\* a session holds two anchors of different age, and the query with limit 1
\* returned the newer one
C14_NewestOfTwo ==
    /\ resp.op = "query" /\ resp.status = 200 /\ resp.req.limit = 1
    /\ Len(resp.anchors) = 1
    /\ \E x, y \in RowsOfSession(resp.req.session_id) :
          /\ x.timestamp > y.timestamp
          /\ resp.anchors = <<x>>

\* C15: a query by session with meshes that follows the successful ingest of
\* an event of that session, whose meshes hang on anchors of the event,
\* returns every anchor of the event by id and, for every content hash among
\* the event's meshes, a mesh of that hash.
C15_IngestThenQuery ==
    [][(/\ resp.op = "ingest" /\ resp.status = 200
        /\ \A m \in SeqRange(resp.req.meshes) :
              ~m.is_delta /\ m.anchor_id \in IdsOf(resp.req.anchors)
        /\ RequestStep("query") /\ resp'.status = 200
        /\ resp'.req.session_id = resp.req.session_id
        /\ resp'.req.include_meshes /\ resp'.req.limit = 0)
       => /\ IdsOf(resp.req.anchors) \subseteq IdsOf(resp'.anchors)
          /\ \A m \in SeqRange(resp.req.meshes) :
                \E x \in resp'.meshes : x.hash = computeMeshHash(m)]_vars

\* C16: GET /api/v1/anchors/:id, the store being up, returns the stored
\* anchor of that id, and 404 when no anchor of that id is stored.
C16_GetAnchorById ==
    [][(RequestStep("get_anchor") /\ resp'.db = "ok" /\ resp'.req # "")
       => IF resp'.req \in DOMAIN anchors
          THEN resp'.status = 200 /\ resp'.anchors = <<anchors[resp'.req]>>
          ELSE resp'.status = 404]_vars

RECURSIVE ChainRoot(_, _, _)
\* the full mesh at the end of the chain of bases of a mesh, NilMesh when
\* the chain does not come to one within fuel steps
ChainRoot(col, mesh, fuel) ==
    IF ~mesh.is_delta THEN mesh
    ELSE IF fuel = 0 \/ mesh.base_mesh_id \notin DOMAIN col THEN NilMesh
    ELSE ChainRoot(col, col[mesh.base_mesh_id], fuel - 1)

\* C17: a query with meshes returns, for every stored delta mesh D of a
\* returned anchor whose chain of bases ends at a stored full mesh M, a mesh
\* with D's id, D's timestamp and M's vertices, faces and normals.
C17_DeltaResolvesToBase ==
    [][(RequestStep("query") /\ resp'.status = 200 /\ resp'.req.include_meshes)
       => \A k \in DOMAIN meshes :
             LET D == meshes[k]
                 M == ChainRoot(meshes, D, Cardinality(DOMAIN meshes))
             IN  (D.is_delta /\ D.anchor_id \in IdsOf(resp'.anchors) /\ M.id # "")
                 => \E x \in resp'.meshes :
                       /\ x.id = D.id /\ x.timestamp = D.timestamp
                       /\ Geometry(x) = Geometry(M)]_vars

\* the delta m3 on the delta m2 on the full mesh m1 was returned with its
\* own id and timestamp and the geometry of m1
C17_ChainOfTwo ==
    /\ resp.op = "query" /\ resp.status = 200
    /\ DOMAIN meshes = DeltaIds
    /\ ~meshes["m1"].is_delta
    /\ meshes["m2"].is_delta /\ meshes["m2"].base_mesh_id = "m1"
    /\ meshes["m3"].is_delta /\ meshes["m3"].base_mesh_id = "m2"
    /\ \E x \in resp.meshes :
          /\ x.id = "m3" /\ x.timestamp = meshes["m3"].timestamp
          /\ x.timestamp # meshes["m1"].timestamp
          /\ Geometry(x) = Geometry(meshes["m1"])
          /\ Geometry(x) # Geometry(meshes["m3"])

\* C18: the resolution of every stored delta mesh terminates, with a mesh or
\* with an error.
C18_ResolveTerminates ==
    \A k \in DOMAIN meshes :
        meshes[k].is_delta => resolveDeltaMesh(meshes, meshes[k]).kind \in {"ok", "err"}

(***************************************************************************)
(* Further properties of the hub and of the mesh hash.                     *)
(***************************************************************************)
\* C19 as stated: when the hub handles the broadcast of an anchor_update of
\* a registered client whose send queue has room, the frame is put on that
\* client's own queue.
C19_EchoToSender ==
    [][\A c \in ClientIds :
         (/\ BroadcastStep(c) /\ pend[c].Message.type = "anchor_update"
          /\ Registered(c) /\ Len(send[c]) < SendCap)
         => send'[c] = Append(send[c], pend[c].Message)]_vars

\* C19: the broadcast of a client's data update leaves that client's send
\* queue as it is, and when the client is the only one of its session it
\* leaves every queue as it is.
C19_NoEchoEvenAlone ==
    [][\A c \in ClientIds :
         BroadcastStep(c)
         => /\ send'[c] = send[c]
            /\ (Registered(c) /\ clients[sessionID[c]] = {c}) => send' = send]_vars

\* the only client connected sent one frame, an anchor_update that was
\* stored and whose broadcast the hub has handled: its queue is empty
C19_AloneNoFrame ==
    /\ nconn = 1 /\ Registered(1) /\ nframes = 1
    /\ DOMAIN anchors # {}
    /\ pc[1] = "read" /\ pend[1] = NoBroadcast /\ hub.pc = "select"
    /\ send[1] = <<>>

\* C20: the hash a processed mesh gets is the hash of any mesh of the same
\* vertices, faces and normals, whatever its id, anchor, timestamp and the
\* hash it came with; a mesh without normals hashes as its vertices and
\* faces alone.
C20_HashOfContentOnly ==
    (last.op = "mesh" /\ ~last.in.is_delta)
    => /\ \A i \in MeshIds, a \in AnchorIds \cup {"a2"}, t \in {1, 2}, h \in Payloads :
             computeMeshHash([last.in EXCEPT !.id = i, !.anchor_id = a,
                                             !.timestamp = t, !.hash = h])
             = last.out.hash
       /\ last.in.normals = <<>>
          => last.out.hash = HashOfGeometry(<<last.in.vertices, last.in.faces, <<>>>>)
       /\ HashOfGeometry(Geometry(last.in)) = last.out.hash

\* a mesh was processed after a stored mesh of the same content and another
\* id, and carries the hash of the stored row
C20_SameHashOtherId ==
    /\ last.op = "mesh" /\ ~last.in.is_delta /\ last.stage = "store"
    /\ last.out.id # last.in.id
    /\ last.out.id \in DOMAIN meshes
    /\ ~meshes[last.out.id].is_delta
    /\ meshes[last.out.id].hash = last.out.hash
    /\ Geometry(meshes[last.out.id]) = Geometry(last.in)
    /\ last.out.hash # <<>>

\* C21: two non-delta meshes that were processed with different vertices,
\* faces or normals have different hashes, and a mesh whose id was rewritten
\* by deduplication has the vertices, faces and normals of the mesh that
\* first carried the hash.
C21_DistinctGeometryDistinctHash ==
    /\ \A g1, g2 \in DOMAIN seen : g1 # g2 => HashOfGeometry(g1) # HashOfGeometry(g2)
    /\ (last.op = "mesh" /\ ~last.in.is_delta /\ last.stage = "store"
        /\ last.out.id # last.in.id)
       => \A g \in DOMAIN seen :
             HashOfGeometry(g) = last.out.hash => g = Geometry(last.in)

(***************************************************************************)
(* Properties of the readers and of the hub loop.                          *)
(***************************************************************************)
\* the step in which a reader takes a frame and hands no broadcast to the
\* hub: the frame was a ping, did not parse, had an unknown type, or was a
\* data update the repository refused
NoBroadcastStep == nframes' # nframes /\ pend' = pend

\* the reader c answered on its own queue with a frame of one of the types:
\* the frame is appended, or dropped when the queue is full
Answered(c, types) ==
    /\ pc[c] = "read" /\ wr[c] = "run"
    /\ IF Len(send[c]) < SendCap
       THEN \E f \in {Frame(t, c, s) : t \in types, s \in Sessions \cup {""}} :
               send' = [send EXCEPT ![c] = Append(@, f)]
       ELSE send' = send

\* C22: a frame that is not a ping and gives no broadcast is answered with an
\* error frame on the reader's own queue, dropped when the queue is full; the
\* reader stays in its loop, nothing is closed, no client is unregistered and
\* no goroutine panics.
C22_ErrorFrameOnly ==
    [][NoBroadcastStep
       => /\ ~panicked'
          /\ pc' = pc /\ wr' = wr /\ closes' = closes /\ clients' = clients
          /\ \E c \in ClientIds :
                Answered(c, IF ncalls' # ncalls THEN {"error"} ELSE {"error", "pong"})]_vars

\* C23: the hub loop, once inside the handling of an event, comes back to
\* its select.
C23_HubReturnsToSelect ==
    (hub.pc # "select") ~> (hub.pc = "select" \/ panicked)

\* C24: a broadcast that finds a recipient's queue full still puts the frame
\* on the queue of every other recipient that has room, and leaves the hub at
\* its select, ready for the next broadcast.
C24_FullQueueDoesNotFailBroadcast ==
    [][\A c \in ClientIds :
         (BroadcastStep(c) /\ FullOf(Recipients(pend[c])) # {})
         => /\ \A r \in Recipients(pend[c]) \ FullOf(Recipients(pend[c])) :
                  send'[r] = Append(send[r], pend[c].Message)
            /\ hub'.pc = "select"]_vars

\* C25: no goroutine sends on a send queue that has been closed: no step
\* panics but by closing a queue twice.
C25_NoSendAfterClose ==
    [][(~panicked /\ panicked') => closes' # closes]_vars

\* C26: a client whose reader has exited is in the end out of its session's
\* set with its send queue closed.
C26_ReaderExitUnregisters ==
    \A c \in ClientIds :
        (pc[c] = "unregister") ~> ((~Registered(c) /\ closed(c)) \/ panicked)

\* C27: the connections_active gauge of every session is the number of
\* clients in the session's set, 0 when the session has no entry; it goes up
\* by one only in the step that inserts a client and down by one only in the
\* step that removes a client that was in the set, and the unregistration of
\* a client that is not in the set changes neither the gauge nor the sets.
C27_GaugeIsSetSize ==
    /\ [](\A s \in Sessions : WSConnectionsActive[s] = SizeOf(s))
    /\ [][\A s \in Sessions :
            /\ WSConnectionsActive'[s] > WSConnectionsActive[s]
               => /\ WSConnectionsActive'[s] = WSConnectionsActive[s] + 1
                  /\ \E c \in ClientIds :
                        /\ RegisterStep(c) /\ sessionID[c] = s
                        /\ ~Registered(c) /\ Registered(c)'
            /\ WSConnectionsActive'[s] < WSConnectionsActive[s]
               => /\ WSConnectionsActive'[s] = WSConnectionsActive[s] - 1
                  /\ \E c \in ClientIds :
                        /\ UnregisterStep(c) /\ sessionID[c] = s
                        /\ Registered(c) /\ ~Registered(c)'
            /\ \A c \in ClientIds :
                  (UnregisterStep(c) /\ ~Registered(c))
                  => /\ WSConnectionsActive' = WSConnectionsActive
                     /\ clients' = clients /\ closes' = closes]_vars

\* a client turned away from a full session has been unregistered, and the
\* gauge of the session still reads the cap
C27_RejectedThenUnregistered ==
    \E c \in ClientIds :
        /\ pc[c] = "done" /\ ~Registered(c) /\ closes[c] = 1
        /\ SizeOf(sessionID[c]) = maxClientsPerSession
        /\ WSConnectionsActive[sessionID[c]] = maxClientsPerSession

\* the step in which a reader takes a data update and calls the repository
DataUpdateStep == nframes' # nframes /\ ncalls' # ncalls

\* C28: a broadcast is handed to the hub only in the step whose repository
\* call returned success, and carries that call's update; when the call
\* returns an error no broadcast is handed over, the hub and every other
\* client's queue stay as they are, and the reader sends an error frame on
\* its own queue (dropped when the queue is full; the send panics when the
\* queue is closed).  A data update comes to a queue only from a broadcast
\* the hub handles.
C28_BroadcastAfterSuccess ==
    [][/\ DataUpdateStep
          => /\ last'.n = ncalls'
             /\ IF last'.err = NoErr
                THEN /\ send' = send /\ ~panicked'
                     /\ \E c \in ClientIds, s \in Sessions :
                           /\ pc[c] = "read" /\ pc'[c] = "broadcast"
                           /\ pend' = [pend EXCEPT ![c] =
                                         BroadcastMessage(sessionID[c],
                                             DataFrame(last'.op, c, s, last'.n), c)]
                ELSE /\ pend' = pend /\ pc' = pc /\ hub' = hub
                     /\ \E c \in ClientIds :
                           IF closed(c)
                           THEN pc[c] = "read" /\ wr[c] = "run" /\ panicked' /\ send' = send
                           ELSE Answered(c, {"error"}) /\ ~panicked'
       /\ \A c \in ClientIds :
             (pend'[c] # pend[c] /\ pend'[c] # NoBroadcast)
             => /\ DataUpdateStep /\ last'.err = NoErr
                /\ pend'[c].Message.n = last'.n
       /\ \A r \in ClientIds :
             (Len(send'[r]) > Len(send[r]) /\ send'[r][Len(send'[r])].type \in DataTypes)
             => \E c \in ClientIds :
                   BroadcastStep(c) /\ send'[r] = Append(send[r], pend[c].Message)]_vars

\* the store failed on the anchor_update of a client that shares its session
\* with another: the sender holds the error frame, the other client nothing,
\* no broadcast is pending and nothing is stored
C28_RefusedNotBroadcast ==
    \E c, d \in ClientIds :
        /\ c # d /\ Registered(c) /\ Registered(d) /\ sessionID[c] = sessionID[d]
        /\ nframes = 1 /\ ncalls = 1 /\ last.n = 1
        /\ last.op = "anchor_update" /\ last.err = DatabaseErr
        /\ send[c] = <<Frame("error", c, sessionID[c])>>
        /\ send[d] = <<>>
        /\ pc[c] = "read" /\ pend[c] = NoBroadcast /\ hub.pc = "select"
        /\ anchors = EmptyMap

\* the data updates of sender c among the frames of a queue
UpdatesOf(q, c) == {q[i].n : i \in {j \in 1..Len(q) : q[j].n > 0 /\ q[j].from = c}}

\* the step in which the writer of r writes the frame at the head of its queue
WriteFrameStep(r) == send[r] # <<>> /\ send'[r] = Tail(send[r])

\* C29: the repository calls for the data updates of a client are made in
\* the order the reader takes them, one at a time, each handed to the hub
\* before the next is read; on every queue the updates of one sender stand in
\* the order of their repository calls, behind those already written to the
\* socket and before the one still waiting for the hub; and the writer writes
\* the head of its queue, so that of two updates of one sender the earlier is
\* written first.
C29_InOrder ==
    /\ [](\A r, c \in ClientIds :
            /\ \A i, j \in 1..Len(send[r]) :
                  (i < j /\ send[r][i].n > 0 /\ send[r][j].n > 0
                   /\ send[r][i].from = c /\ send[r][j].from = c)
                  => send[r][i].n < send[r][j].n
            /\ \A n \in UpdatesOf(send[r], c) : written[r][c] < n /\ n <= ncalls
            /\ pend[c] # NoBroadcast
               => /\ written[r][c] < pend[c].Message.n
                  /\ \A n \in UpdatesOf(send[r], c) : n < pend[c].Message.n)
    /\ [][/\ DataUpdateStep => last'.n = ncalls + 1 /\ ncalls' = ncalls + 1
          /\ \A c \in ClientIds :
                (pend'[c] # pend[c] /\ pend'[c] # NoBroadcast)
                => pend[c] = NoBroadcast /\ pend'[c].Message.n = ncalls + 1
          /\ \A r \in ClientIds :
                /\ send'[r] # send[r]
                   => \/ WriteFrameStep(r)
                      \/ \E f \in {send'[r][Len(send'[r])]} : send'[r] = Append(send[r], f)
                /\ (WriteFrameStep(r) /\ Head(send[r]).n > 0)
                   => /\ written[r][Head(send[r]).from] < Head(send[r]).n
                      /\ written'[r][Head(send[r]).from] = Head(send[r]).n]_vars

\* the first update of a sender has been written to the socket of another
\* client, and the second one stands on that client's queue
C29_SecondBehindFirst ==
    \E r, c \in ClientIds :
        /\ r # c /\ written[r][c] = 1 /\ ncalls = 2
        /\ Len(send[r]) = 1 /\ send[r][1].from = c /\ send[r][1].n = 2

(***************************************************************************)
(* Properties of Repository.Ingest on a batch.                             *)
(***************************************************************************)
\* the place of the first delta mesh without a base in a sequence of meshes,
\* 0 when there is none
FirstRefused(ms) ==
    LET bad == {j \in 1..Len(ms) : ms[j].is_delta /\ ms[j].base_mesh_id = ""}
    IN  IF bad = {} THEN 0 ELSE CHOOSE j \in bad : \A i \in bad : j <= i

\* the number of meshes of an event that come through processor and store
\* before the first one that fails
MeshesDone(event, db) ==
    IF db = "down" THEN 0
    ELSE IF FirstRefused(event.meshes) = 0 THEN Len(event.meshes)
    ELSE FirstRefused(event.meshes) - 1

\* the id of the first anchor or mesh of an event that fails, "" when none does
FirstFailing(event, db) ==
    IF db = "down" /\ event.anchors # <<>> THEN event.anchors[1].id
    ELSE IF MeshesDone(event, db) < Len(event.meshes)
    THEN event.meshes[MeshesDone(event, db) + 1].id
    ELSE ""

\* what Ingest does up to the first failure: every anchor is upserted, in
\* order, before any mesh is touched; the meshes before the failing one are
\* stored, the failing one may have come to the cache, no later one has
IngestedInOrder(event, db, anchorsAfter, cacheAfter, meshesAfter) ==
    LET as == event.anchors
        ms == event.meshes
        done == MeshesDone(event, db)
        tried == IF db = "down" /\ as # <<>> THEN 0 ELSE Min(done + 1, Len(ms))
        hashes(n) == {computeMeshHash(ms[j]) : j \in {i \in 1..n : ~ms[i].is_delta}}
    IN  /\ IF db = "down" THEN anchorsAfter = anchors
           ELSE /\ DOMAIN anchorsAfter = DOMAIN anchors \cup IdsOf(as)
                /\ \A id \in IdsOf(as) : anchorsAfter[id] = LastOf(as, id)
                /\ \A id \in DOMAIN anchors \ IdsOf(as) : anchorsAfter[id] = anchors[id]
        /\ DOMAIN cacheAfter = DOMAIN meshHashCache \cup hashes(tried)
        /\ \A j \in 1..done :
              IF ms[j].is_delta THEN ms[j].id \in DOMAIN meshesAfter
              ELSE cacheAfter[computeMeshHash(ms[j])] \in DOMAIN meshesAfter
        /\ DOMAIN meshesAfter \subseteq
              DOMAIN meshes \cup {ms[j].id : j \in 1..done}
                            \cup {cacheAfter[h] : h \in hashes(done)}

\* C30: Ingest upserts the anchors of the event in order and then processes
\* and stores its meshes in order; at the first anchor or mesh that fails it
\* returns an error that names that anchor or mesh, and no later anchor or
\* mesh of the event is processed.
C30_BatchAbortsAtFirstFailure ==
    [][(RequestStep("ingest") /\ resp'.req.session_id # "")
       => LET item == FirstFailing(resp'.req, resp'.db)
          IN  /\ IF item = "" THEN resp'.err = NilError /\ resp'.status = 200
                 ELSE resp'.err # NilError /\ resp'.err.item = item
              /\ IngestedInOrder(resp'.req, resp'.db, anchors', meshHashCache', meshes')]_vars

(***************************************************************************)
(* The hub and its clients with the clock: the read deadline of ReadPump   *)
(* (main.go:320-325).  Time passes in steps of pongWait.                   *)
(***************************************************************************)
MaxTime == 2 * pongWait

\* time passes
Tick ==
    /\ ~panicked
    /\ now < MaxTime
    /\ now' = now + pongWait
    /\ UNCHANGED <<clients, hub, nconn, sessionID, send, closes, pc, wr, pend, nframes,
                   panicked, WSConnectionsActive, written, readDeadline, repoVars>>

\* a pong is read before the deadline: the pong handler moves the deadline
\* (main.go:321-324)
Pong(c) ==
    /\ ~panicked
    /\ pc[c] = "read"
    /\ now <= readDeadline[c]
    /\ readDeadline' = [readDeadline EXCEPT ![c] = now + pongWait]
    /\ UNCHANGED <<clients, hub, nconn, sessionID, send, closes, pc, wr, pend, nframes,
                   panicked, WSConnectionsActive, written, now, repoVars>>

\* ReadMessage fails once the deadline has passed: ReadPump breaks and its
\* defer sends the client on h.unregister (main.go:315-318, 327-333)
ReadTimeout(c) ==
    /\ ~panicked
    /\ pc[c] = "read"
    /\ now > readDeadline[c]
    /\ pc' = [pc EXCEPT ![c] = "unregister"]
    /\ UNCHANGED <<clients, hub, nconn, sessionID, send, closes, wr, pend, nframes,
                   panicked, WSConnectionsActive, written, now, readDeadline, repoVars>>

\* the frames of the timed runs: well-formed anchor updates of the client's
\* own session
TimedInbound ==
    {m \in Inbound : m.type = "anchor_update" /\ m.session_id = "" /\ m.data # BadData}

NextTimed ==
    \/ HubStep
    \/ \E s \in Sessions : Connect(s)
    \/ \E c \in ClientIds, m \in TimedInbound : ReadPump(c, m, "ok")
    \/ \E c \in ClientIds : WritePump(c)
    \/ \E c \in ClientIds : WritePumpEnd(c)
    \/ Tick
    \/ \E c \in ClientIds : Pong(c)
    \/ \E c \in ClientIds : ReadTimeout(c)

\* the hub goroutine is scheduled fairly, and a read whose deadline has
\* passed returns
FairSpecTimed ==
    /\ Init /\ [][NextTimed]_vars
    /\ WF_vars(HubStep)
    /\ \A c \in ClientIds : WF_vars(ReadTimeout(c))

(***************************************************************************)
(* Two request tasks in the mesh pipeline side by side.  Ingest runs on    *)
(* the caller's task and ProcessWebSocketMessage on a reader's; nothing    *)
(* orders the tasks' accesses to meshHashCache, a plain map, or puts the   *)
(* pre-read and the insert of ingestMesh in one transaction.  Each access  *)
(* to the map and each call of the store is a step.                        *)
(***************************************************************************)
RaceMeshes ==
    { Mesh(id, "a1", v, <<>>, <<>>, <<>>, FALSE, "", <<>>) : id \in MeshIds, v \in Payloads }

TaskAt(t, p) == tasks[t].pc = p

\* what a step of a task leaves alone
TaskFrame == UNCHANGED <<hubIdle, anchors, seen, ncalls, last, resp>>

\* a task enters processMeshForStorage with a mesh and computes its hash
\* (repository.go:140-141)
TaskStart(t, mesh) ==
    /\ ~panicked
    /\ TaskAt(t, "idle")
    /\ tasks' = [tasks EXCEPT ![t] = [pc |-> "lookup", in |-> mesh,
                                      mesh |-> [mesh EXCEPT !.hash = computeMeshHash(mesh)],
                                      err |-> NoErr]]
    /\ UNCHANGED <<meshHashCache, meshes, panicked>>
    /\ TaskFrame

\* the task reads the map: on a hit it takes the id found and returns
\* (repository.go:144-153)
TaskLookup(t) ==
    /\ ~panicked
    /\ TaskAt(t, "lookup")
    /\ LET h == tasks[t].mesh.hash
       IN  tasks' = IF h \in DOMAIN meshHashCache
                    THEN [tasks EXCEPT ![t].mesh.id = meshHashCache[h], ![t].pc = "preread"]
                    ELSE [tasks EXCEPT ![t].pc = "cachewrite"]
    /\ UNCHANGED <<meshHashCache, meshes, panicked>>
    /\ TaskFrame

\* after a miss the task writes the map (repository.go:157)
TaskCacheWrite(t) ==
    /\ ~panicked
    /\ TaskAt(t, "cachewrite")
    /\ meshHashCache' = Put(meshHashCache, tasks[t].mesh.hash, tasks[t].mesh.id)
    /\ tasks' = [tasks EXCEPT ![t].pc = "preread"]
    /\ UNCHANGED <<meshes, panicked>>
    /\ TaskFrame

\* an access to the map while another task writes it is a data race: the
\* runtime may stop the process (concurrent map writes)
TaskMapFault(t) ==
    /\ ~panicked
    /\ TaskAt(t, "lookup") \/ TaskAt(t, "cachewrite")
    /\ \E u \in Tasks \ {t} : TaskAt(u, "cachewrite")
    /\ panicked' = TRUE
    /\ UNCHANGED <<meshHashCache, meshes, tasks>>
    /\ TaskFrame

\* ingestMesh reads the row of the mesh's id: found, it returns nil
\* (repository.go:169-177)
TaskPreRead(t) ==
    /\ ~panicked
    /\ TaskAt(t, "preread")
    /\ tasks' = IF StoreHas(meshes, tasks[t].mesh.id)
                THEN [tasks EXCEPT ![t].pc = "done"]
                ELSE [tasks EXCEPT ![t].pc = "create"]
    /\ UNCHANGED <<meshHashCache, meshes, panicked>>
    /\ TaskFrame

\* ingestMesh inserts the row; the store refuses a key it holds
\* (repository.go:180-183)
TaskCreate(t) ==
    /\ ~panicked
    /\ TaskAt(t, "create")
    /\ IF StoreHas(meshes, tasks[t].mesh.id)
       THEN /\ tasks' = [tasks EXCEPT ![t].pc = "done", ![t].err = DatabaseErr]
            /\ UNCHANGED meshes
       ELSE /\ tasks' = [tasks EXCEPT ![t].pc = "done"]
            /\ meshes' = StoreCreate(meshes, tasks[t].mesh.id, tasks[t].mesh)
    /\ UNCHANGED <<meshHashCache, panicked>>
    /\ TaskFrame

NextRace ==
    \/ \E t \in Tasks, mesh \in RaceMeshes : TaskStart(t, mesh)
    \/ \E t \in Tasks : TaskLookup(t)
    \/ \E t \in Tasks : TaskCacheWrite(t)
    \/ \E t \in Tasks : TaskMapFault(t)
    \/ \E t \in Tasks : TaskPreRead(t)
    \/ \E t \in Tasks : TaskCreate(t)

SpecRace == Init /\ [][NextRace]_vars

(***************************************************************************)
(* Properties of the dedup map and of what a batch leaves behind.          *)
(***************************************************************************)
\* C31: an Ingest that returns an error leaves the anchors collection, the
\* meshes collection and the dedup map as they were before the call.
C31_FailedIngestLeavesNothing ==
    [][(RequestStep("ingest") /\ resp'.err # NilError)
       => /\ anchors' = anchors
          /\ meshes' = meshes
          /\ meshHashCache' = meshHashCache]_vars

\* every entry hash -> id of the dedup map names a row of that id and hash
CacheNamesRows(cache, col) ==
    \A h \in DOMAIN cache : cache[h] \in DOMAIN col /\ col[cache[h]].hash = h

\* C34: every entry hash -> id of the dedup map names a stored mesh row of
\* that id whose hash is that hash: a run of the mesh pipeline that succeeds
\* in a state where this is so leaves it so.
C34_CacheNamesStoredRow ==
    [][(MeshStep /\ last'.err = NoErr /\ CacheNamesRows(meshHashCache, meshes))
       => CacheNamesRows(meshHashCache', meshes')]_vars

\* C35: after a successful ingest, for every non-delta mesh of the event the
\* meshes collection holds a row with the mesh's content hash and the mesh's
\* anchor_id.
C35_RowUnderOwnAnchor ==
    [][(RequestStep("ingest") /\ resp'.status = 200)
       => \A m \in SeqRange(resp'.req.meshes) :
             ~m.is_delta
             => \E k \in DOMAIN meshes' :
                   /\ meshes'[k].hash = computeMeshHash(m)
                   /\ meshes'[k].anchor_id = m.anchor_id]_vars

\* C36: the anchor a live client's accepted anchor_update writes is stored
\* with the session the client is bound to, the session the update is
\* broadcast to.
C36_AnchorUnderBoundSession ==
    [][\A c \in ClientIds :
         (/\ DataUpdateStep /\ pend'[c] # pend[c]
          /\ pend'[c].Message.type = "anchor_update")
         => \A k \in DOMAIN anchors' :
               (k \notin DOMAIN anchors \/ anchors'[k] # anchors[k])
               => /\ anchors'[k].session_id = sessionID[c]
                  /\ anchors'[k].session_id = pend'[c].SessionID]_vars

(***************************************************************************)
(* Further properties of Query with meshes.                                *)
(***************************************************************************)
\* C37: every mesh a query with meshes returns has the anchor_id of one of
\* the anchors of the same response, meshes made by delta resolution
\* included.
C37_MeshOfReturnedAnchor ==
    [][(RequestStep("query") /\ resp'.status = 200 /\ resp'.req.include_meshes)
       => \A x \in resp'.meshes : x.anchor_id \in IdsOf(resp'.anchors)]_vars

\* C38: a query with meshes that the store serves succeeds with every anchor
\* of the session, leaves out each mesh of a returned anchor whose delta
\* resolution fails, and returns every other mesh of these anchors.
C38_UnresolvedOmitted ==
    [][(RequestStep("query") /\ resp'.db = "ok" /\ resp'.req.include_meshes)
       => /\ resp'.status = 200
          /\ IdsOf(resp'.anchors)
               = {k \in DOMAIN anchors : anchors[k].session_id = resp'.req.session_id}
          /\ \A k \in DOMAIN meshes :
                meshes[k].anchor_id \in IdsOf(resp'.anchors)
                => LET r == resolveDeltaMesh(meshes, meshes[k])
                   IN  /\ r.kind = "err" => \A x \in resp'.meshes : x.id # k
                       /\ r.kind = "ok" => r.mesh \in resp'.meshes]_vars

\* a query returned the anchor a1 and the full mesh m1 and left out the
\* stored delta m3, whose base m2 is not stored
C38_MissingBaseLeftOut ==
    /\ resp.op = "query" /\ resp.status = 200
    /\ "a1" \in IdsOf(resp.anchors)
    /\ DOMAIN meshes = {"m1", "m3"}
    /\ meshes["m1"].anchor_id = "a1" /\ ~meshes["m1"].is_delta
    /\ meshes["m3"].anchor_id = "a1" /\ meshes["m3"].is_delta
    /\ meshes["m3"].base_mesh_id = "m2"
    /\ meshes["m1"] \in resp.meshes
    /\ \A x \in resp.meshes : x.id # "m3"

(***************************************************************************)
(* Properties of tasks that run the mesh pipeline side by side.            *)
(***************************************************************************)
\* the task has left processMeshForStorage with its processed mesh
Processed(t) == tasks[t].pc \in {"preread", "create", "done"}

\* C32: when two tasks have processed non-delta meshes of equal geometry and
\* distinct ids, both processed meshes carry the same id, and at most one
\* row with their hash is stored.
C32_ConcurrentDedupConverges ==
    \A t, u \in Tasks :
        (/\ t # u /\ Processed(t) /\ Processed(u)
         /\ Geometry(tasks[t].in) = Geometry(tasks[u].in)
         /\ tasks[t].in.id # tasks[u].in.id)
        => /\ tasks[t].mesh.id = tasks[u].mesh.id
           /\ Cardinality({k \in DOMAIN meshes : meshes[k].hash = tasks[t].mesh.hash}) <= 1

\* C33: when two tasks have ingested meshes of the same id, both calls
\* returned without error and one row of that id is stored.
C33_ConcurrentSameIdIgnored ==
    \A t, u \in Tasks :
        (/\ t # u /\ TaskAt(t, "done") /\ TaskAt(u, "done")
         /\ tasks[t].in.id = tasks[u].in.id)
        => /\ tasks[t].err = NoErr /\ tasks[u].err = NoErr
           /\ tasks[t].in.id \in DOMAIN meshes

(***************************************************************************)
(* Properties of the read deadline.                                        *)
(***************************************************************************)
\* the reader of a client is running and its read deadline has passed
Expired(c) == pc[c] \in {"read", "broadcast"} /\ now > readDeadline[c]

\* C39: the read deadline is pongWait after the start of the reader or the
\* last pong, whatever data frames were read since; once it has passed, the
\* reader terminates and its unregister is taken by the hub.
C39_ExpiredReaderUnregisters ==
    \A c \in ClientIds : Expired(c) ~> (pc[c] = "done" \/ panicked)

(***************************************************************************)
(* Properties of a client the session cap turned away.                     *)
(***************************************************************************)
\* the pumps of the client run and the hub did not admit it to its session
RejectedClient(c) ==
    /\ pc[c] \in {"read", "broadcast"}
    /\ ~Registered(c)

\* C40: a client rejected by the session cap has no frame put on its send
\* queue and no data frame written to its socket, and its writer, finding
\* the queue closed, terminates (unless the process has panicked).
C40_RejectedWriterEnds ==
    /\ [](\A c \in ClientIds :
            RejectedClient(c)
            => /\ send[c] = <<>>
               /\ \A d \in ClientIds : written[c][d] = 0)
    /\ \A c \in ClientIds : RejectedClient(c) ~> (wr[c] = "done" \/ panicked)

\* a client was turned away from a session at its cap, and its writer has
\* returned while its reader still runs
C40_RejectedWriterDone ==
    \E c \in ClientIds :
        /\ RejectedClient(c) /\ closed(c) /\ wr[c] = "done"
        /\ sessionID[c] \in DOMAIN clients
        /\ Cardinality(clients[sessionID[c]]) = maxClientsPerSession
============================================================================
